---------------------------- MODULE Spec2Model ----------------------------
(***************************************************************************)
(* A model of the umbrel linter (Mr-Sunglasses/ulint): the report          *)
(* (LintingResult), the linting orchestrator (UmbrelLinter), the YAML      *)
(* parser boundary, the variable mocker and the image reference parser.    *)
(*                                                                         *)
(* A text is a sequence of tokens: one character each wherever an          *)
(* operation looks inside the text, a whole word where texts are only      *)
(* compared.  The outcomes of the external libraries (the YAML parser,     *)
(* the schema library, the file system, the network) are inputs drawn      *)
(* from small sets.                                                        *)
(***************************************************************************)
EXTENDS Integers, Sequences, FiniteSets, TLC

VARIABLES
    res,        \* LintingResult under test (core/models.py)
    arg,        \* the finding passed to the last add_error call on res
    pc,         \* position of the linter run (core/linter.py)
    ctx,        \* the LintingContext handed to the run
    ctx0,       \* the LintingContext as it was created
    apps,       \* app_directories of the store scan, in iteration order
    cur,        \* index in apps of the application being linted
    mode,       \* the top-level call: "none", "app", "store", "single", "all"
    dirFiles,   \* get_directory_files of the application being linted
    ghCache,    \* GitHubValidator._cache: URL -> exists
    ghRequests, \* the lookups of the GitHub validator: URL and answer
    manifestRun,\* record of the last _validate_app_manifest call
    appResult,  \* LintingResult of the running lint_app
    result,     \* LintingResult of the running lint_all_apps
    stages,     \* stages the running lint_app has executed, in order
    merged,     \* application ids whose findings were merged into result
    returned,   \* what the top-level call returned: "none", a result, "raised"
    parsed,     \* last return value of parse_yaml_with_error_handling
    composeRun, \* record of the last validate_docker_compose call
    text,       \* input text of the variable mocker
    mocked,     \* mock_variables(text)
    mocked2,    \* mock_variables(mocked)
    mpc,        \* position of the mocker scenario
    imageString,\* input of DockerImage.from_string
    image,      \* the parsed DockerImage
    imageStr,   \* str(image)
    svcs,       \* validate_images: the image values of the services, in order
    check,      \* validate_images: check_architectures
    rpc,        \* position of the running validate_images call
    ri,         \* index in svcs of the service being validated
    requests,   \* HTTP requests the registry client issued for this image
    regCache,   \* DockerRegistryClient._cache: host -> is_registry
    rerrors,    \* findings of the running validate_images call
    resp,       \* the manifest response get_architectures holds
    token,      \* the token get_architectures obtained
    resolved,   \* per service: what validate_image came to
    compose,    \* a parsed compose document under the rule checks
    ruleOut,    \* what the rule check returned for compose
    rulePc,     \* the rule check applied: "none", "booleans", "restart", ...
    ruleFiles,  \* the files of the application the rule checks are given
    manifestIn, \* keyword arguments of a manifest model under construction
    validation, \* what constructing the model came to
    schemaPc,   \* position of the schema scenario
    mockedVariables, \* the list _find_mocks works on
    findPc,     \* position of the _find_mocks scenario
    strict,     \* the --strict option of the lint command
    exitCode    \* exit code of the lint command, -1 while it runs

resVars  == <<res, arg>>
lintVars == <<pc, ctx, ctx0, apps, cur, mode, dirFiles, ghCache, ghRequests,
              appResult,
              result, stages, merged, returned, parsed, manifestRun,
              composeRun>>
mockVars == <<text, mocked, mocked2, mpc>>
imgVars  == <<imageString, image, imageStr>>
regVars  == <<svcs, check, rpc, ri, requests, regCache, rerrors, resp, token,
              resolved>>
ruleVars == <<compose, ruleOut, rulePc, ruleFiles>>
schemaVars == <<manifestIn, validation, schemaPc>>
cliVars  == <<strict, exitCode>>
findVars == <<mockedVariables, findPc>>
vars     == <<resVars, lintVars, mockVars, imgVars, regVars, ruleVars,
              schemaVars, cliVars, findVars>>

\* everything but one part of the state
notResVars    == <<lintVars, mockVars, imgVars, regVars, ruleVars, schemaVars,
                  cliVars, findVars>>
notLintVars   == <<resVars, mockVars, imgVars, regVars, ruleVars, schemaVars,
                  cliVars, findVars>>
notMockVars   == <<resVars, lintVars, imgVars, regVars, ruleVars, schemaVars,
                  cliVars, findVars>>
notImgVars    == <<resVars, lintVars, mockVars, regVars, ruleVars, schemaVars,
                  cliVars, findVars>>
notRegVars    == <<resVars, lintVars, mockVars, imgVars, ruleVars, schemaVars,
                  cliVars, findVars>>
notRuleVars   == <<resVars, lintVars, mockVars, imgVars, regVars, schemaVars,
                  cliVars, findVars>>
notSchemaVars == <<resVars, lintVars, mockVars, imgVars, regVars, ruleVars,
                  cliVars, findVars>>
notCliVars    == <<resVars, lintVars, mockVars, imgVars, regVars, ruleVars,
                  schemaVars, findVars>>
notFindVars   == <<resVars, lintVars, mockVars, imgVars, regVars, ruleVars,
                  schemaVars, cliVars>>

---------------------------------------------------------------------------
(* Bounds *)

MaxFindings == 3    \* add_error calls on the result under test

---------------------------------------------------------------------------
(* core/models.py *)

Severity == {"error", "warning", "info"}

\* LintingError (line and column are never set by the linter)
LintingError(id, severity, title, message, file, properties_path) ==
    [id |-> id, severity |-> severity, title |-> title, message |-> message,
     file |-> file, properties_path |-> properties_path]

\* LintingResult()
EmptyResult ==
    [errors |-> <<>>, success |-> TRUE,
     total_errors |-> 0, total_warnings |-> 0, total_info |-> 0]

\* add_error as the repository's tests expect it: success cleared whatever
\* the severity
AddErrorAnySeverity(r, e) ==
    [errors         |-> Append(r.errors, e),
     success        |-> FALSE,
     total_errors   |-> r.total_errors + (IF e.severity = "error" THEN 1 ELSE 0),
     total_warnings |-> r.total_warnings + (IF e.severity = "warning" THEN 1 ELSE 0),
     total_info     |-> r.total_info + (IF e.severity = "info" THEN 1 ELSE 0)]

\* add_error that counts every finding as an error
AddErrorCountingErrorsOnly(r, e) ==
    [errors         |-> Append(r.errors, e),
     success        |-> IF e.severity = "error" THEN FALSE ELSE r.success,
     total_errors   |-> r.total_errors + 1,
     total_warnings |-> r.total_warnings,
     total_info     |-> r.total_info]

\* LintingResult.add_error
AddError(r, e) ==
    [errors         |-> Append(r.errors, e),
     success        |-> IF e.severity = "error" THEN FALSE ELSE r.success,
     total_errors   |-> r.total_errors + (IF e.severity = "error" THEN 1 ELSE 0),
     total_warnings |-> r.total_warnings + (IF e.severity = "warning" THEN 1 ELSE 0),
     total_info     |-> r.total_info + (IF e.severity = "info" THEN 1 ELSE 0)]

RECURSIVE AddAll(_, _)
\* for error in errors: result.add_error(error)
AddAll(r, es) ==
    IF es = <<>> THEN r ELSE AddAll(AddError(r, Head(es)), Tail(es))

\* has_errors / has_warnings / has_info
HasSeverity(r, s) == \E i \in 1..Len(r.errors) : r.errors[i].severity = s

CountSeverity(es, s) == Cardinality({i \in 1..Len(es) : es[i].severity = s})

---------------------------------------------------------------------------
(* The report under test: any sequence of add_error calls *)

TestFindings ==
    {LintingError(id, s, <<"Test">>, "This is a test", <<"test.yml">>, <<>>) :
        id \in {"test_a", "test_b"}, s \in Severity}

NoFinding == LintingError("none", "info", <<>>, "", <<>>, <<>>)

ResultInit == res = EmptyResult /\ arg = NoFinding

CallAddError ==
    /\ Len(res.errors) < MaxFindings
    /\ \E e \in TestFindings :
          /\ res' = AddError(res, e)
          /\ arg' = e
    /\ UNCHANGED notResVars

---------------------------------------------------------------------------
(* Parsed YAML values.  A mapping keeps its keys in document order. *)

Null      == [type |-> "null"]
StrV(s)   == [type |-> "str", v |-> s]
IntV(n)   == [type |-> "int", v |-> n]
BoolV(b)  == [type |-> "bool", v |-> b]
ListV(xs) == [type |-> "list", items |-> xs]
MapV(ks, f) == [type |-> "map", keys |-> ks, fields |-> f]
EmptyMap  == MapV(<<>>, <<>>)

IsMap(v)  == v.type = "map"
Has(v, k) == IsMap(v) /\ k \in DOMAIN v.fields
\* dict.get(k, default)
Get(v, k, default) == IF k \in DOMAIN v.fields THEN v.fields[k] ELSE default
\* Python truthiness of a parsed value
Truthy(v) ==
    CASE v.type = "null" -> FALSE
      [] v.type = "str"  -> v.v # <<>>
      [] v.type = "int"  -> v.v # 0
      [] v.type = "bool" -> v.v
      [] v.type = "list" -> v.items # <<>>
      [] v.type = "map"  -> v.keys # <<>>

\* A file's text, as the YAML library sees it: a syntax error with its
\* message, or the value it loads.
BadYaml(msg) == [ok |-> FALSE, msg |-> msg, value |-> Null]
GoodYaml(v)  == [ok |-> TRUE, msg |-> "", value |-> v]

(* validators/yaml_validator.py *)

\* parse_yaml_with_error_handling that keeps the partial tree on failure
ParseYamlKeepingTree(content, filename) ==
    IF content.ok
      THEN [data |-> content.value, error |-> <<>>]
      ELSE [data |-> EmptyMap,
            error |-> <<LintingError("invalid_yaml_syntax", "error",
                          <<filename, "is not a valid YAML file">>,
                          content.msg, filename, <<>>)>>]

\* parse_yaml_with_error_handling: (data, None) or (None, error)
ParseYaml(content, filename) ==
    IF content.ok
      THEN [data |-> content.value, error |-> <<>>]
      ELSE [data |-> Null,
            error |-> <<LintingError("invalid_yaml_syntax", "error",
                          <<filename, "is not a valid YAML file">>,
                          content.msg, filename, <<>>)>>]

NotParsed == [data |-> Null, error |-> <<>>, called |-> FALSE]
Parsed(p) == [data |-> p.data, error |-> p.error, called |-> TRUE]

---------------------------------------------------------------------------
(* What a call returns: a list of findings, or an exception raised past it *)

Returns(es) == [raised |-> FALSE, errors |-> es]
Raises      == [raised |-> TRUE, errors |-> <<>>]

---------------------------------------------------------------------------
(* validators/github_validator.py *)

PrUrl      == <<"https://github.com/owner/repo/pull/1">>
OtherPrUrl == <<"https://github.com/owner/repo/pull/2">>
NotPrUrl   == <<"https://example.com/submission">>
RepoUrl    == <<"https://github.com/owner/repo">>

\* _is_github_pr_url: https, host github.com, path /owner/repo/pull/<digits>
IsGithubPrUrl(url) == url \in {PrUrl, OtherPrUrl}
\* _is_github_repo_url: https, host github.com, path /owner/repo
IsGithubRepoUrl(url) == url \in {RepoUrl}

\* What the network answers to one request: a status, or a failure
NetAnswers == {"200", "404", "403", "failure"}

\* _pr_exists: the memoized answer, else 404 alone means missing
PrExists(url, net, cache) ==
    IF url \in DOMAIN cache THEN cache[url] ELSE net # "404"

\* _repo_exists: the memoized answer, else 200 or a failure means present
RepoExists(url, net, cache) ==
    IF url \in DOMAIN cache THEN cache[url] ELSE net \in {"200", "failure"}

\* self._cache[url] = exists
Memo(cache, url, exists) ==
    IF url \in DOMAIN cache THEN cache ELSE (url :> exists) @@ cache

\* validate_pull_request
ValidatePullRequest(url, app_id, net, cache) ==
    IF ~IsGithubPrUrl(url)
      THEN <<LintingError("invalid_submission_field", "error",
               <<"Invalid submission URL", url>>,
               "Submission URL must be a valid GitHub pull request URL",
               <<app_id, "umbrel-app.yml">>, <<"submission">>)>>
      ELSE IF ~PrExists(url, net, cache)
        THEN <<LintingError("invalid_submission_field", "error",
                 <<"Pull request not found", url>>,
                 "The specified pull request does not exist or is not accessible",
                 <<app_id, "umbrel-app.yml">>, <<"submission">>)>>
        ELSE <<>>

\* _validate_github_repo_url
ValidateGithubRepoUrl(url, app_id, net, cache) ==
    IF ~IsGithubRepoUrl(url)
      THEN <<LintingError("invalid_repo_url", "warning",
               <<"Invalid repository URL", url>>,
               "Repository URL should be a valid GitHub repository URL",
               <<app_id, "umbrel-app.yml">>, <<"repo">>)>>
      ELSE IF ~RepoExists(url, net, cache)
        THEN <<LintingError("invalid_repo_url", "warning",
                 <<"Repository not found", url>>,
                 "The specified repository does not exist or is not accessible",
                 <<app_id, "umbrel-app.yml">>, <<"repo">>)>>
        ELSE <<>>

\* validate_github_urls, for manifest_data a mapping; net.pr and net.repo are
\* the network's answers to the two lookups
ValidateGithubUrls(data, app_id, net, cache) ==
    LET sub     == Get(data, "submission", Null)
        doPr    == Truthy(sub)
        prErrs  == IF doPr THEN ValidatePullRequest(sub.v, app_id, net.pr, cache)
                   ELSE <<>>
        cache1  == IF doPr /\ IsGithubPrUrl(sub.v)
                     THEN Memo(cache, sub.v, PrExists(sub.v, net.pr, cache))
                     ELSE cache
        repo    == Get(data, "repo", Null)
        doRepo  == Truthy(repo) /\ repo.type = "str"
        repoErrs == IF doRepo
                      THEN ValidateGithubRepoUrl(repo.v, app_id, net.repo, cache1)
                      ELSE <<>>
        cache2  == IF doRepo /\ IsGithubRepoUrl(repo.v)
                     THEN Memo(cache1, repo.v, RepoExists(repo.v, net.repo, cache1))
                     ELSE cache1
        \* client.get(...) of _pr_exists and _repo_exists: once per URL
        \* that the cache does not hold
        prReq   == IF doPr /\ IsGithubPrUrl(sub.v) /\ sub.v \notin DOMAIN cache
                     THEN <<[url |-> sub.v, answer |-> net.pr]>> ELSE <<>>
        repoReq == IF doRepo /\ IsGithubRepoUrl(repo.v)
                        /\ repo.v \notin DOMAIN cache1
                     THEN <<[url |-> repo.v, answer |-> net.repo]>> ELSE <<>>
    IN  [errors |-> prErrs \o repoErrs, cache |-> cache2,
         requests |-> prReq \o repoReq]

---------------------------------------------------------------------------
(* schemas/umbrel_app.py *)

\* The required fields of UmbrelAppManifest, in declaration order
RequiredFields ==
    <<"manifestVersion", "id", "name", "tagline", "category", "version",
      "port", "description", "developer", "submitter", "submission",
      "support", "website", "path">>

\* port: int, 0 <= port <= 65535
PortOk(v) == v.type = "int" /\ v.v >= 0 /\ v.v <= 65535

\* The fields the schema library reports as violated, in declaration order:
\* a required field that is missing, a port that is not an integer in range
ManifestViolations(data) ==
    SelectSeq(RequiredFields,
              LAMBDA f : \/ f \notin DOMAIN data.fields
                         \/ f = "port" /\ ~PortOk(data.fields[f]))

---------------------------------------------------------------------------
(* core/linter.py *)

ManifestFile(app_id) == <<app_id, "umbrel-app.yml">>
ComposeFile(app_id)  == <<app_id, "docker-compose.yml">>

\* int(port) of _get_used_ports: the integer, or "none" for ValueError/TypeError
PortInt(v) ==
    CASE v.type = "int"  -> <<v.v>>
      [] v.type = "bool" -> <<1>>
      [] OTHER           -> <<>>

RECURSIVE GetUsedPorts(_, _)
\* _get_used_ports: port -> "name (id)" of the other applications' manifests;
\* a later manifest overrides an earlier one on the same port
GetUsedPorts(all_manifests, current_app_id) ==
    IF all_manifests = <<>> THEN <<>>
    ELSE LET n    == Len(all_manifests)
             rest == GetUsedPorts(SubSeq(all_manifests, 1, n - 1), current_app_id)
             p    == ParseYaml(all_manifests[n], <<"manifest">>)
             data == p.data
         IN  IF IsMap(data) /\ Truthy(data)
               THEN LET app_id == Get(data, "id", Null)
                        name   == Get(data, "name", Null)
                        port   == Get(data, "port", Null)
                    IN  IF /\ Truthy(app_id) /\ Truthy(name) /\ Truthy(port)
                           /\ app_id # StrV(<<current_app_id>>)
                           /\ PortInt(port) # <<>>
                          THEN (PortInt(port)[1] :> <<name.v, app_id.v>>) @@ rest
                          ELSE rest
               ELSE rest

\* The finding the except branch of _validate_app_manifest builds from the
\* schema library's message: the first violated field only
SchemaFinding(data, app_id) ==
    LET f == Head(ManifestViolations(data))
    IN  IF f \notin DOMAIN data.fields
          THEN LintingError("schema_validation_error", "error",
                 <<"Missing required field", f>>,
                 "The required field is missing", ManifestFile(app_id), <<f>>)
          ELSE LintingError("schema_validation_error", "error",
                 <<"Invalid field", f>>,
                 "Input should be a valid value", ManifestFile(app_id), <<f>>)

\* The new-submission checks of _validate_app_manifest, on a constructed manifest
NewSubmissionFindings(manifest, app_id, c) ==
    LET submission   == manifest.fields["submission"].v
        releaseNotes == Get(manifest, "releaseNotes", Null)
        icon         == Get(manifest, "icon", Null)
        gallery      == Get(manifest, "gallery", ListV(<<>>))
    IN  (IF c.pull_request_url # <<>> /\ submission # c.pull_request_url
           THEN <<LintingError("invalid_submission_field", "error",
                    <<"Invalid submission field", submission>>,
                    "The submission field must be set to the URL of this pull request",
                    ManifestFile(app_id), <<"submission">>)>>
           ELSE <<>>)
        \o
        (IF Truthy(releaseNotes)
           THEN <<LintingError("filled_out_release_notes_on_first_submission", "error",
                    <<"releaseNotes needs to be empty for new app submissions">>,
                    "The releaseNotes field must be empty for new app submissions",
                    ManifestFile(app_id), <<"releaseNotes">>)>>
           ELSE <<>>)
        \o
        (IF Truthy(icon) \/ Truthy(gallery)
           THEN <<LintingError("filled_out_icon_or_gallery_on_first_submission", "warning",
                    <<"icon and gallery needs to be empty for new app submissions">>,
                    "The icon and gallery fields must be empty for new app submissions",
                    ManifestFile(app_id),
                    IF Truthy(icon) THEN <<"icon">> ELSE <<"gallery">>)>>
           ELSE <<>>)

\* The duplicate-port check of _validate_app_manifest, on a constructed manifest
DuplicatePortFindings(manifest, app_id, c) ==
    LET used_ports == GetUsedPorts(c.all_app_manifests, app_id)
        port       == manifest.fields["port"].v
    IN  IF port \in DOMAIN used_ports
          THEN <<LintingError("duplicate_ui_port", "error",
                   <<"Port", port, "is already used by", used_ports[port]>>,
                   "Each app must use a unique port",
                   ManifestFile(app_id), <<"port">>)>>
          ELSE <<>>

\* _validate_app_manifest: the findings, or an exception raised past it
\* (AttributeError: manifest_data.get on a value that is no mapping,
\* manifest.port on manifest = None)
ValidateAppManifest(file, app_id, c, net, cache) ==
    LET ret(es, g, p) == [raised |-> FALSE, errors |-> es, cache |-> g.cache,
                          requests |-> g.requests, parsed |-> p]
        exc(g, p)     == [raised |-> TRUE, errors |-> <<>>, cache |-> g.cache,
                          requests |-> g.requests, parsed |-> p]
        none          == [cache |-> cache, requests |-> <<>>]
    IN  IF ~file.exists
          THEN ret(<<LintingError("missing_umbrel_app_yml", "error",
                       <<"umbrel-app.yml does not exist">>,
                       "Every app needs a manifest file called umbrel-app.yml",
                       ManifestFile(app_id), <<>>)>>, none, NotParsed)
        ELSE IF ~file.readable
          THEN ret(<<LintingError("file_read_error", "error",
                       <<"Failed to read umbrel-app.yml">>,
                       "OSError", ManifestFile(app_id), <<>>)>>, none, NotParsed)
        ELSE LET p == ParseYaml(file.content, ManifestFile(app_id))
             IN  IF p.error # <<>> THEN ret(p.error, none, Parsed(p))
                 ELSE IF ~IsMap(p.data) THEN exc(none, Parsed(p))
                 ELSE
                   LET gh  == ValidateGithubUrls(p.data, app_id, net, cache)
                       ok  == ManifestViolations(p.data) = <<>>
                       sch == IF ok THEN <<>> ELSE <<SchemaFinding(p.data, app_id)>>
                       new == IF c.is_new_submission /\ ok
                                THEN NewSubmissionFindings(p.data, app_id, c)
                                ELSE <<>>
                   IN  IF c.all_app_manifests # <<>>
                         THEN IF ok
                                THEN ret(gh.errors \o sch \o new
                                           \o DuplicatePortFindings(p.data, app_id, c),
                                         gh, Parsed(p))
                                ELSE exc(gh, Parsed(p))
                         ELSE ret(gh.errors \o sch \o new, gh, Parsed(p))

---------------------------------------------------------------------------
(* Texts: sequences of one-character strings, with Python's str operations *)

\* s.startswith(p)
StartsWith(s, p) == Len(p) <= Len(s) /\ SubSeq(s, 1, Len(p)) = p

\* whether p occurs in s at (1-based) position i
OccursAt(s, p, i) ==
    i >= 1 /\ i + Len(p) - 1 <= Len(s) /\ SubSeq(s, i, i + Len(p) - 1) = p

\* p in s
Contains(s, p) == \E i \in 1..(Len(s) + 1) : OccursAt(s, p, i)

\* s.find(p) as a 1-based position, 0 when p does not occur (Python's -1)
Find(s, p) ==
    IF Contains(s, p)
      THEN CHOOSE i \in 1..(Len(s) + 1) :
             OccursAt(s, p, i) /\ \A j \in 1..(i - 1) : ~OccursAt(s, p, j)
      ELSE 0

\* s.rfind(p), 1-based, 0 when p does not occur
RFind(s, p) ==
    IF Contains(s, p)
      THEN CHOOSE i \in 1..(Len(s) + 1) :
             OccursAt(s, p, i) /\ \A j \in (i + 1)..(Len(s) + 1) : ~OccursAt(s, p, j)
      ELSE 0

\* s[from:] with a 1-based first position
Drop(s, from) == SubSeq(s, from, Len(s))

RECURSIVE Replace(_, _, _)
\* s.replace(old, new), old non-empty: every non-overlapping occurrence,
\* left to right
Replace(s, old, new) ==
    LET i == Find(s, old)
    IN  IF i = 0 THEN s
        ELSE SubSeq(s, 1, i - 1) \o new \o Replace(Drop(s, i + Len(old)), old, new)

RECURSIVE Split(_, _)
\* s.split(sep), sep one character
Split(s, sep) ==
    LET i == Find(s, <<sep>>)
    IN  IF i = 0 THEN <<s>>
        ELSE <<SubSeq(s, 1, i - 1)>> \o Split(Drop(s, i + 1), sep)

RECURSIVE Join(_, _)
\* sep.join(parts), sep one character
Join(parts, sep) ==
    IF parts = <<>> THEN <<>>
    ELSE IF Len(parts) = 1 THEN parts[1]
    ELSE parts[1] \o <<sep>> \o Join(Tail(parts), sep)

\* s.split(sep, 1) for s containing sep: the cut at the first sep
Split1(s, sep) ==
    LET i == Find(s, <<sep>>)
    IN  <<SubSeq(s, 1, i - 1), Drop(s, i + 1)>>

\* s.rsplit(sep, 1) for s containing sep: <<before the last sep, after it>>
RSplit1(s, sep) ==
    LET i == RFind(s, <<sep>>)
    IN  <<SubSeq(s, 1, i - 1), Drop(s, i + 1)>>

\* s.strip(chars): the leading and the trailing run of chars removed
RECURSIVE LStrip(_, _)
LStrip(s, chars) ==
    IF s # <<>> /\ Head(s) \in chars THEN LStrip(Tail(s), chars) ELSE s
RECURSIVE RStrip(_, _)
RStrip(s, chars) ==
    IF s # <<>> /\ s[Len(s)] \in chars
      THEN RStrip(SubSeq(s, 1, Len(s) - 1), chars) ELSE s
Strip(s, chars) == RStrip(LStrip(s, chars), chars)
Whitespace == {" ", "\n", "\t"}

Digits == {"0", "1", "2", "3", "4", "5", "6", "7", "8", "9"}
\* s.isdigit()
IsDigit(s) == s # <<>> /\ \A i \in 1..Len(s) : s[i] \in Digits

\* s.lower(), character by character
LowerChar(c) ==
    CASE c = "A" -> "a" [] c = "B" -> "b" [] c = "C" -> "c"
      [] c = "D" -> "d" [] c = "E" -> "e" [] c = "F" -> "f"
      [] c = "G" -> "g" [] c = "H" -> "h" [] c = "I" -> "i"
      [] c = "J" -> "j" [] c = "K" -> "k" [] c = "L" -> "l"
      [] c = "M" -> "m" [] c = "N" -> "n" [] c = "O" -> "o"
      [] c = "P" -> "p" [] c = "Q" -> "q" [] c = "R" -> "r"
      [] c = "S" -> "s" [] c = "T" -> "t" [] c = "U" -> "u"
      [] c = "V" -> "v" [] c = "W" -> "w" [] c = "X" -> "x"
      [] c = "Y" -> "y" [] c = "Z" -> "z"
      [] OTHER -> c
Lower(s) == [i \in 1..Len(s) |-> LowerChar(s[i])]

RECURSIVE Concat(_)
\* the concatenation of a sequence of sequences
Concat(ss) == IF ss = <<>> THEN <<>> ELSE Head(ss) \o Concat(Tail(ss))

---------------------------------------------------------------------------
(* validators/docker_compose_validator.py *)

RootUser  == <<"root">>
HostMode  == <<"host">>
OnFailure == <<"on-failure">>
Always    == <<"always">>

\* data.get("services", {})
ServicesOf(data) == Get(data, "services", EmptyMap)

\* for service_name, service_config in services.items(): F, concatenated
PerService(services, F(_, _)) ==
    Concat([i \in 1..Len(services.keys) |->
              F(services.keys[i], services.fields[services.keys[i]])])

\* services.items() and service_config.get(...) raise AttributeError on a
\* value that is no mapping; with skipProxy the loop skips app_proxy first
LoopRaises(services, skipProxy) ==
    \/ ~IsMap(services)
    \/ \E k \in DOMAIN services.fields :
          ~(skipProxy /\ k = "app_proxy") /\ ~IsMap(services.fields[k])

StringFields == {"image", "user", "restart", "network_mode", "hostname",
                 "container_name"}
MapOrListFields == {"environment", "labels", "extra_hosts"}

\* DOCKER_COMPOSE_SCHEMA on one service entry
ServiceConforms(cfg) ==
    /\ IsMap(cfg)
    /\ \A k \in DOMAIN cfg.fields :
          /\ k \in StringFields => cfg.fields[k].type = "str"
          /\ k \in MapOrListFields => cfg.fields[k].type \in {"map", "list"}
          /\ k \in {"ports", "volumes"} => cfg.fields[k].type = "list"

\* DOCKER_COMPOSE_SCHEMA on the document
DocumentConforms(data) ==
    /\ IsMap(data)
    /\ "version" \in DOMAIN data.fields => data.fields["version"].type = "str"
    /\ "services" \in DOMAIN data.fields =>
          /\ IsMap(data.fields["services"])
          /\ \A k \in DOMAIN data.fields["services"].fields :
                ServiceConforms(data.fields["services"].fields[k])

\* _validate_schema: one finding for the violation the schema library reports
ValidateSchema(data, app_id) ==
    IF DocumentConforms(data) THEN <<>>
    ELSE <<LintingError("schema_validation_error", "error",
             <<"Docker Compose schema validation failed">>,
             "is not of the required type", ComposeFile(app_id), <<"$">>)>>

\* validate_images (docker_image_validator.py), for services without an
\* image value: every entry is skipped
ValidateImages(services, app_id, check_architectures) ==
    IF LoopRaises(services, FALSE) THEN Raises ELSE Returns(<<>>)

\* the literal booleans of one section of a service
SectionBooleans(name, cfg, section, app_id) ==
    LET m == Get(cfg, section, Null)
    IN  IF ~IsMap(m) THEN <<>>
        ELSE Concat([i \in 1..Len(m.keys) |->
               IF m.fields[m.keys[i]].type = "bool"
                 THEN <<LintingError("invalid_yaml_boolean_value", "error",
                          <<"Invalid YAML boolean value for key", m.keys[i]>>,
                          "Boolean values should be strings",
                          ComposeFile(app_id),
                          <<"services", name, section, m.keys[i]>>)>>
                 ELSE <<>>])

\* _validate_boolean_values
ValidateBooleanValues(data, app_id) ==
    IF ~IsMap(data) \/ LoopRaises(ServicesOf(data), FALSE) THEN Raises
    ELSE Returns(PerService(ServicesOf(data), LAMBDA name, cfg :
           SectionBooleans(name, cfg, "environment", app_id)
           \o SectionBooleans(name, cfg, "labels", app_id)
           \o SectionBooleans(name, cfg, "extra_hosts", app_id)))

\* str(value) == "1000" for an environment value
IsThousand(v) ==
    \/ v.type = "int" /\ v.v = 1000
    \/ v.type = "str" /\ v.v = <<"1", "0", "0", "0">>

DockerSock == <<"/", "v", "a", "r", "/", "r", "u", "n", "/", "d", "o", "c", "k", "e", "r", ".", "s", "o", "c", "k">>

\* for volume in volumes raises TypeError on a value that cannot be
\* iterated, and "..." in source on a source that is no string
VolumesRaise(cfg) ==
    LET volumes == Get(cfg, "volumes", ListV(<<>>))
    IN  \/ volumes.type \in {"null", "int", "bool"}
        \/ /\ volumes.type = "list"
           /\ \E i \in 1..Len(volumes.items) :
                 /\ IsMap(volumes.items[i])
                 /\ Get(volumes.items[i], "source", StrV(<<>>)).type # "str"

\* the volume entries the loops look at: those of a list (the characters
\* of a string and the keys of a mapping hold no path)
VolumeEntries(cfg) ==
    LET volumes == Get(cfg, "volumes", ListV(<<>>))
    IN  IF volumes.type = "list" THEN volumes.items ELSE <<>>

\* the docker_socket_mount findings of one service
SocketFindings(name, cfg, app_id) ==
    LET volumes == VolumeEntries(cfg)
        finding == LintingError("docker_socket_mount", "warning",
                     <<"Docker socket is mounted in", name>>,
                     "The volume mounts the Docker socket",
                     ComposeFile(app_id), <<"services", name, "volumes">>)
    IN  Concat([i \in 1..Len(volumes) |->
          IF \/ /\ volumes[i].type = "str"
                /\ Contains(volumes[i].v, DockerSock)
             \/ /\ IsMap(volumes[i])
                /\ Contains(Get(volumes[i], "source", StrV(<<>>)).v, DockerSock)
            THEN <<finding>>
            ELSE <<>>])

\* whether an entry of an environment list sets UID or PUID to 1000
SetsUid(env_var) ==
    /\ env_var.type = "str"
    /\ Contains(env_var.v, <<"=">>)
    /\ Split1(env_var.v, "=")[1] \in {<<"UID">>, <<"PUID">>}
    /\ Split1(env_var.v, "=")[2] = <<"1", "0", "0", "0">>

\* has_uid_env of _validate_security_settings
HasUidEnv(cfg) ==
    LET environment == Get(cfg, "environment", EmptyMap)
    IN  \/ /\ IsMap(environment)
           /\ \E k \in DOMAIN environment.fields :
                 k \in {"UID", "PUID"} /\ IsThousand(environment.fields[k])
        \/ /\ environment.type = "list"
           /\ \E i \in 1..Len(environment.items) : SetsUid(environment.items[i])

\* "=" in env_var raises TypeError on an entry that is a number, a boolean
\* or null, when the loop reaches it
EnvironmentRaises(cfg) ==
    LET environment == Get(cfg, "environment", EmptyMap)
    IN  /\ environment.type = "list"
        /\ \E i \in 1..Len(environment.items) :
              /\ environment.items[i].type \in {"null", "int", "bool"}
              /\ \A j \in 1..(i - 1) : ~SetsUid(environment.items[j])

\* the findings of one service: the socket mounts, and for a service other
\* than app_proxy (continue) the user and network_mode findings
SecurityFindings(name, cfg, app_id) ==
    LET user         == Get(cfg, "user", Null)
        network_mode == Get(cfg, "network_mode", Null)
    IN  SocketFindings(name, cfg, app_id)
        \o
        (IF name = "app_proxy" THEN <<>>
         ELSE
          (IF user = StrV(RootUser)
             THEN <<LintingError("invalid_container_user", "info",
                      <<"Using unsafe user in service", name>>,
                      "The user can lead to security vulnerabilities",
                      ComposeFile(app_id), <<"services", name, "user">>)>>
           ELSE IF ~Truthy(user) /\ ~HasUidEnv(cfg)
             THEN <<LintingError("invalid_container_user", "info",
                      <<"Potentially using unsafe user in service", name>>,
                      "The default container user root can lead to security vulnerabilities",
                      ComposeFile(app_id), <<"services", name, "user">>)>>
           ELSE <<>>)
          \o
          (IF network_mode = StrV(HostMode)
             THEN <<LintingError("container_network_mode_host", "info",
                      <<"Service uses host network mode", name>>,
                      "The host network mode can lead to security vulnerabilities",
                      ComposeFile(app_id), <<"services", name, "network_mode">>)>>
           ELSE <<>>))

\* _validate_security_settings
ValidateSecuritySettings(data, app_id) ==
    IF ~IsMap(data) \/ LoopRaises(ServicesOf(data), FALSE) THEN Raises
    ELSE IF \E k \in DOMAIN ServicesOf(data).fields :
               \/ VolumesRaise(ServicesOf(data).fields[k])
               \/ EnvironmentRaises(ServicesOf(data).fields[k])
      THEN Raises
    ELSE Returns(PerService(ServicesOf(data), LAMBDA name, cfg :
           SecurityFindings(name, cfg, app_id)))

AppDataDir == <<"A", "P", "P", "_", "D", "A", "T", "A", "_", "D", "I", "R">>

\* \$\{?APP_DATA_DIR\}? matched at position i: the position after the
\* match, or 0 (both braces are taken when they are there)
DataDirEnd(s, i) ==
    LET j == IF OccursAt(s, <<"$", "{">>, i) THEN i + 2 ELSE i + 1
        e == j + Len(AppDataDir)
    IN  IF OccursAt(s, <<"$">>, i) /\ OccursAt(s, AppDataDir, j)
          THEN IF OccursAt(s, <<"}">>, e) THEN e + 1 ELSE e
          ELSE 0

\* /? at position e: the position after it
AfterSlash(s, e) == IF OccursAt(s, <<"/">>, e) THEN e + 1 ELSE e

\* the matches of \$\{?APP_DATA_DIR\}?/? in s: <<start, position after>>
DataDirMatches(s) ==
    {<<i, AfterSlash(s, DataDirEnd(s, i))>> :
       i \in {k \in 1..Len(s) : DataDirEnd(s, k) # 0}}

\* the position of the first c at or after position from, 0 when none
FindFrom(s, c, from) ==
    IF \E k \in from..Len(s) : s[k] = c
      THEN CHOOSE k \in from..Len(s) :
             s[k] = c /\ \A l \in from..(k - 1) : s[l] # c
      ELSE 0

\* group 1 of re.search(r"\$\{?APP_DATA_DIR\}?/?(.*?):", volume), stripped:
\* [matched |-> FALSE], or the text up to the first colon, at the leftmost
\* start from which a colon is reached without a line break
StringRelativePath(volume) ==
    LET ok == {m \in DataDirMatches(volume) :
                 /\ FindFrom(volume, ":", m[2]) # 0
                 /\ \A k \in m[2]..(FindFrom(volume, ":", m[2]) - 1) :
                       volume[k] # "\n"}
    IN  IF ok = {} THEN [matched |-> FALSE, path |-> <<>>]
        ELSE LET m == CHOOSE x \in ok : \A y \in ok : x[1] <= y[1]
             IN  [matched |-> TRUE,
                  path |-> Strip(SubSeq(volume, m[2],
                                        FindFrom(volume, ":", m[2]) - 1),
                                 Whitespace)]

\* the text of s from position from to where $ matches: the end, or the
\* line break that ends s; <<"\n">> when a line break comes before
ToEnd(s, from) ==
    LET last == IF s # <<>> /\ s[Len(s)] = "\n" THEN Len(s) - 1 ELSE Len(s)
    IN  IF from > last + 1 \/ \E k \in from..last : s[k] = "\n"
          THEN <<"\n">>
          ELSE SubSeq(s, from, last)

\* group 1 of re.search(r"\$\{?APP_DATA_DIR\}?/?(.*?)$", source), stripped
SourceRelativePath(source) ==
    LET ok == {m \in DataDirMatches(source) : ToEnd(source, m[2]) # <<"\n">>}
    IN  IF ok = {} THEN [matched |-> FALSE, path |-> <<>>]
        ELSE LET m == CHOOSE x \in ok : \A y \in ok : x[1] <= y[1]
             IN  [matched |-> TRUE,
                  path |-> Strip(ToEnd(source, m[2]), Whitespace)]

\* the findings of one volume entry of a service
VolumeFindings(volume, name, app_id, file_paths) ==
    LET shown == IF volume.type = "str" THEN volume.v
                 ELSE Get(volume, "source", StrV(<<>>)).v \o <<":">>
                        \o Get(volume, "target", StrV(<<>>)).v
        direct ==
          IF volume.type = "str"
            THEN \E m \in DataDirMatches(volume.v) :
                    OccursAt(volume.v, <<":">>, m[2])
            ELSE LET source == Get(volume, "source", StrV(<<>>)).v
                 IN  \E m \in DataDirMatches(source) :
                        ToEnd(source, m[2]) = <<>>
        match ==
          IF volume.type = "str" THEN StringRelativePath(volume.v)
          ELSE SourceRelativePath(Get(volume, "source", StrV(<<>>)).v)
        relative_path == match.path
        candidate_paths == {relative_path, <<app_id, "/">> \o relative_path}
    IN  (IF direct
           THEN <<LintingError("invalid_app_data_dir_volume_mount", "warning",
                    <<"Volume">> \o shown,
                    "Volumes should not be mounted directly into the data directory",
                    ComposeFile(app_id), <<"services", name, "volumes">>)>>
           ELSE <<>>)
        \o
        (IF /\ match.matched
            /\ relative_path # <<>>
            /\ candidate_paths \cap file_paths = {}
           THEN <<LintingError("missing_file_or_directory", "info",
                    <<"Mounted file/directory doesn't exist", "/", app_id,
                      "/">> \o relative_path,
                    "The volume tries to mount a file/directory that is not present",
                    ComposeFile(app_id), <<"services", name, "volumes">>)>>
           ELSE <<>>)

\* the findings of the volume entries of one service
ServiceVolumeFindings(name, cfg, app_id, file_paths) ==
    LET volumes == VolumeEntries(cfg)
    IN  Concat([i \in 1..Len(volumes) |->
          IF volumes[i].type = "str" \/ IsMap(volumes[i])
            THEN VolumeFindings(volumes[i], name, app_id, file_paths)
            ELSE <<>>])

\* _validate_volume_mounts
ValidateVolumeMounts(data, app_id, files) ==
    IF ~IsMap(data) \/ LoopRaises(ServicesOf(data), FALSE) THEN Raises
    ELSE IF \E k \in DOMAIN ServicesOf(data).fields :
               VolumesRaise(ServicesOf(data).fields[k])
      THEN Raises
    ELSE Returns(PerService(ServicesOf(data), LAMBDA name, cfg :
           ServiceVolumeFindings(name, cfg, app_id, {f.path : f \in files})))

\* _validate_port_mappings, for services without a ports value
ValidatePortMappings(data, app_id) ==
    IF ~IsMap(data) \/ LoopRaises(ServicesOf(data), FALSE) THEN Raises
    ELSE Returns(<<>>)

\* the text of a service name
ServiceText(k) ==
    IF k = "web_server" THEN <<"web", "_", "server">> ELSE <<k>>

RECURSIVE EnvKeys(_)
\* the keys of the entries key=value of an environment list, in order
EnvKeys(items) ==
    IF items = <<>> THEN <<>>
    ELSE LET rest == EnvKeys(SubSeq(items, 1, Len(items) - 1))
             last == items[Len(items)]
         IN  IF last.type = "str" /\ Contains(last.v, <<"=">>)
                /\ \A i \in 1..Len(rest) : rest[i] # Split1(last.v, "=")[1][1]
               THEN Append(rest, Split1(last.v, "=")[1][1])
               ELSE rest

\* env_vars of _validate_app_proxy_configuration: the mapping itself, or
\* the mapping built from the entries key=value of a list (a later entry
\* replaces an earlier one), or {}
EnvVars(environment) ==
    IF IsMap(environment) THEN environment
    ELSE IF environment.type = "list"
      THEN LET keys == EnvKeys(environment.items)
               sets(k) == {i \in 1..Len(environment.items) :
                             /\ environment.items[i].type = "str"
                             /\ Contains(environment.items[i].v, <<"=">>)
                             /\ Split1(environment.items[i].v, "=")[1] = <<k>>}
               last(k) == CHOOSE i \in sets(k) : \A j \in sets(k) : j <= i
           IN  MapV(keys,
                    [k \in {keys[i] : i \in 1..Len(keys)} |->
                       StrV(Split1(environment.items[last(k)].v, "=")[2])])
    ELSE EmptyMap

\* the hostnames and container names of the services other than app_proxy
Hostnames(services) ==
    {Get(services.fields[k], f, Null).v :
        <<k, f>> \in {kf \in (DOMAIN services.fields) \X {"hostname", "container_name"} :
                        /\ kf[1] # "app_proxy"
                        /\ Truthy(Get(services.fields[kf[1]], kf[2], Null))}}

\* the APP_HOST and APP_PORT findings, env_vars the proxy's environment map
ProxyFindings(services, env_vars, app_id) ==
    LET finding(sev, title) ==
            LintingError("invalid_app_proxy_configuration", sev, <<title>>,
              "The app_proxy container needs APP_HOST and APP_PORT",
              ComposeFile(app_id), <<"services", "app_proxy", "environment">>)
        app_host == Get(env_vars, "APP_HOST", Null).v
        parts    == Split(app_host, "_")
        app_port == Get(env_vars, "APP_PORT", Null).v
    IN  (IF "APP_HOST" \notin DOMAIN env_vars.fields
           THEN <<finding("error", "Missing APP_HOST environment variable")>>
         ELSE IF /\ ~StartsWith(app_host, <<"$">>)
                 /\ app_host \notin Hostnames(services)
                 /\ Len(parts) >= 3
                 /\ \/ parts[1] # Lower(<<app_id>>)
                    \/ \A k \in (DOMAIN services.fields) \ {"app_proxy"} :
                          parts[2] # ServiceText(k)
                    \/ parts[3] # <<"1">>
           THEN <<finding("warning", "Invalid APP_HOST environment variable")>>
         ELSE <<>>)
        \o
        (IF "APP_PORT" \notin DOMAIN env_vars.fields
           THEN <<finding("error", "Missing APP_PORT environment variable")>>
         ELSE IF ~StartsWith(app_port, <<"$">>) /\ ~IsDigit(app_port)
           THEN <<finding("warning", "Invalid APP_PORT environment variable")>>
         ELSE <<>>)

\* _validate_app_proxy_configuration; "=" in env_var raises TypeError on
\* an entry of an environment list that is a number, a boolean or null
ValidateAppProxyConfiguration(data, app_id) ==
    IF ~IsMap(data) \/ LoopRaises(ServicesOf(data), TRUE) THEN Raises
    ELSE LET services  == ServicesOf(data)
             app_proxy == Get(services, "app_proxy", Null)
         IN  IF ~Truthy(app_proxy) THEN Returns(<<>>)
             ELSE IF ~IsMap(app_proxy) THEN Raises
             ELSE LET environment == Get(app_proxy, "environment", EmptyMap)
                  IN  IF /\ environment.type = "list"
                         /\ \E i \in 1..Len(environment.items) :
                               environment.items[i].type
                                 \in {"null", "int", "bool"}
                        THEN Raises
                      ELSE Returns(ProxyFindings(services,
                                                 EnvVars(environment), app_id))

\* the restart finding of one service
RestartFinding(name, cfg, app_id) ==
    IF name # "app_proxy" /\ Get(cfg, "restart", Null) # StrV(OnFailure)
      THEN <<LintingError("invalid_restart_policy", "warning",
               <<"Invalid restart policy">>,
               "The restart policy of the container should be set to on-failure",
               ComposeFile(app_id), <<"services", name, "restart">>)>>
      ELSE <<>>

\* _validate_restart_policies
ValidateRestartPolicies(data, app_id) ==
    IF ~IsMap(data) \/ LoopRaises(ServicesOf(data), TRUE) THEN Raises
    ELSE Returns(PerService(ServicesOf(data), LAMBDA name, cfg :
           RestartFinding(name, cfg, app_id)))

\* validate_docker_compose: the findings, the rule checks it started, the
\* last return of the parser; or an exception raised past it.  file.content
\* is the text, file.mocked the text after mock_variables.
ValidateDockerCompose(file, app_id, files, options) ==
    LET p  == ParseYaml(file.content, ComposeFile(app_id))
        mp == ParseYaml(file.mocked, ComposeFile(app_id))
        data        == p.data
        mocked_data == mp.data
        out(raised, es, rules) ==
            [raised |-> raised, errors |-> es, rules |-> rules, parsed |-> Parsed(mp)]
        schema   == ValidateSchema(mocked_data, app_id)
        images   == ValidateImages(ServicesOf(data), app_id,
                                   options.check_image_architectures)
        booleans == ValidateBooleanValues(mocked_data, app_id)
        volumes  == ValidateVolumeMounts(data, app_id, files)
        security == ValidateSecuritySettings(mocked_data, app_id)
        ports    == ValidatePortMappings(mocked_data, app_id)
        proxy    == ValidateAppProxyConfiguration(mocked_data, app_id)
        restart  == ValidateRestartPolicies(mocked_data, app_id)
    IN  IF p.error # <<>>
          THEN [raised |-> FALSE, errors |-> p.error, rules |-> <<>>,
                parsed |-> Parsed(p)]
        ELSE IF mp.error # <<>> THEN out(FALSE, mp.error, <<>>)
        ELSE IF ~IsMap(data) THEN out(TRUE, <<>>, <<"schema">>)
        ELSE IF images.raised THEN out(TRUE, <<>>, <<"schema", "images">>)
        ELSE IF booleans.raised
          THEN out(TRUE, <<>>, <<"schema", "images", "booleans">>)
        ELSE IF volumes.raised
          THEN out(TRUE, <<>>, <<"schema", "images", "booleans", "volumes">>)
        ELSE IF security.raised
          THEN out(TRUE, <<>>, <<"schema", "images", "booleans", "volumes",
                                 "security">>)
        ELSE IF ports.raised
          THEN out(TRUE, <<>>, <<"schema", "images", "booleans", "volumes",
                                 "security", "ports">>)
        ELSE IF proxy.raised
          THEN out(TRUE, <<>>, <<"schema", "images", "booleans", "volumes",
                                 "security", "ports", "proxy">>)
        ELSE IF restart.raised
          THEN out(TRUE, <<>>, <<"schema", "images", "booleans", "volumes",
                                 "security", "ports", "proxy", "restart">>)
        ELSE out(FALSE,
                 schema \o images.errors \o booleans.errors \o volumes.errors
                   \o security.errors \o ports.errors \o proxy.errors
                   \o restart.errors,
                 <<"schema", "images", "booleans", "volumes", "security",
                   "ports", "proxy", "restart">>)

NoComposeRun ==
    [called |-> FALSE, syntaxOk |-> TRUE, raised |-> FALSE, errors |-> <<>>,
     rules |-> <<>>]

---------------------------------------------------------------------------
(* core/linter.py: the store manifest, the directory structure *)

LowerLetters ==
    {"a", "b", "c", "d", "e", "f", "g", "h", "i", "j", "k", "l", "m", "n",
     "o", "p", "q", "r", "s", "t", "u", "v", "w", "x", "y", "z"}

ReservedPrefix ==
    <<"u", "m", "b", "r", "e", "l", "-", "a", "p", "p", "-", "s", "t", "o",
      "r", "e">>

\* lowercase words joined by single dashes, from the first character of v
\* to its last
StoreIdWords(v) ==
    /\ v # <<>>
    /\ \A i \in 1..Len(v) : v[i] \in LowerLetters \cup {"-"}
    /\ v[1] # "-" /\ v[Len(v)] # "-"
    /\ \A i \in 1..(Len(v) - 1) : ~(v[i] = "-" /\ v[i + 1] = "-")

\* re.match(r"^[a-z]+(?:-[a-z]+)*$", v): "$" matches at the end of v and
\* before a newline that ends it
StoreIdFormat(v) ==
    \/ StoreIdWords(v)
    \/ /\ v # <<>>
       /\ v[Len(v)] = "\n"
       /\ StoreIdWords(SubSeq(v, 1, Len(v) - 1))

\* UmbrelAppStoreManifest(**data) succeeds (schemas/umbrel_app.py)
StoreManifestOk(data) ==
    /\ IsMap(data)
    /\ {"id", "name"} \subseteq DOMAIN data.fields
    /\ \A k \in {"id", "name"} :
          /\ data.fields[k].type = "str"
          /\ Len(data.fields[k].v) >= 1 /\ Len(data.fields[k].v) <= 50
    /\ ~StartsWith(data.fields["id"].v, ReservedPrefix)
    /\ StoreIdFormat(data.fields["id"].v)

\* _validate_app_store_manifest
ValidateAppStoreManifest(file) ==
    IF ~file.readable
      THEN <<LintingError("file_read_error", "error",
               <<"Failed to read umbrel-app-store.yml">>, "OSError",
               <<"umbrel-app-store.yml">>, <<>>)>>
    ELSE LET p == ParseYaml(file.content, <<"umbrel-app-store.yml">>)
         IN  IF p.error # <<>> THEN p.error
             ELSE IF ~StoreManifestOk(p.data)
               THEN <<LintingError("schema_validation_error", "error",
                        <<"umbrel-app-store.yml validation failed">>,
                        "validation error", <<"umbrel-app-store.yml">>, <<>>)>>
             ELSE <<>>

\* lint_app_store
LintAppStore(file, readmeExists, c) ==
    LET manifestFindings ==
            IF ~file.exists
              THEN IF c.app_store_type = "community"
                     THEN <<LintingError("missing_umbrel_app_store_yml", "error",
                              <<"umbrel-app-store.yml does not exist">>,
                              "For community app stores, the file is required",
                              <<"umbrel-app-store.yml">>, <<>>)>>
                     ELSE <<>>
              ELSE ValidateAppStoreManifest(file)
        readmeFindings ==
            IF ~readmeExists
              THEN <<LintingError("missing_readme", "warning",
                       <<"README.md does not exist">>,
                       "A README.md file is highly recommended",
                       <<"README.md">>, <<>>)>>
              ELSE <<>>
    IN  AddAll(AddAll(EmptyResult, manifestFindings), readmeFindings)

\* FileEntry; a path is its sequence of segments
FileEntry(path, type) == [path |-> path, type |-> type]

\* _validate_directory_structure; order lists the directories as the set
\* iteration yields them
ValidateDirectoryStructure(fs, order) ==
    Concat([i \in 1..Len(order) |->
      IF \E f \in fs : StartsWith(f.path, order[i]) /\ Len(f.path) > Len(order[i])
        THEN <<>>
        ELSE <<LintingError("empty_app_data_directory", "error",
                 <<"Empty directory", order[i]>>,
                 "Please add a .gitkeep file to the directory",
                 order[i], <<>>)>>])

\* the orders in which a set can be iterated
Orders(S) ==
    {o \in [1..Cardinality(S) -> S] : \A x \in S : \E i \in DOMAIN o : o[i] = x}

\* LinterConfig() (core/models.py)
DefaultConfig ==
    [check_image_architectures |-> TRUE, log_level |-> "warning",
     strict_mode |-> FALSE, ignore_patterns |-> <<>>]

---------------------------------------------------------------------------
(* The files, contexts and network answers the linter runs are drawn from *)

AppIds       == {"a", "b"}      \* application directories that exist
AbsentAppId  == "c"             \* an application id with no directory

AbsentFile      == [exists |-> FALSE, readable |-> FALSE, content |-> GoodYaml(Null)]
UnreadableFile  == [exists |-> TRUE, readable |-> FALSE, content |-> GoodYaml(Null)]
TextFile(c)     == [exists |-> TRUE, readable |-> TRUE, content |-> c]
SyntaxError     == BadYaml("mapping values are not allowed here")

\* a manifest with every required field
Manifest(app_id, port, extraKeys, extra) ==
    MapV(RequiredFields \o extraKeys,
         [manifestVersion |-> IntV(1), id |-> StrV(<<app_id>>),
          name |-> StrV(<<"App", app_id>>), tagline |-> StrV(<<"A great app">>),
          category |-> StrV(<<"files">>), version |-> StrV(<<"1.0.0">>),
          port |-> IntV(port), description |-> StrV(<<"An app">>),
          developer |-> StrV(<<"dev">>), submitter |-> StrV(<<"sub">>),
          submission |-> StrV(PrUrl), support |-> StrV(<<"https://example.com/s">>),
          website |-> StrV(<<"https://example.com">>), path |-> StrV(<<>>)]
         @@ extra)

\* a mapping without one of its keys
Without(m, k) ==
    MapV(SelectSeq(m.keys, LAMBDA x : x # k),
         [x \in DOMAIN m.fields \ {k} |-> m.fields[x]])

ManifestTexts(app_id) ==
    {SyntaxError,
     GoodYaml(Null),                                    \* an empty file
     GoodYaml(ListV(<<StrV(<<"x">>)>>)),                \* a sequence
     GoodYaml(Manifest(app_id, 3000, <<>>, <<>>)),
     GoodYaml(Manifest(app_id, 3000, <<"releaseNotes">>,
                       [releaseNotes |-> StrV(<<"notes">>)])),
     GoodYaml(Manifest(app_id, 70000, <<>>, <<>>)),     \* port out of range
     GoodYaml(Manifest(app_id, 3001, <<>>, <<>>)),
     GoodYaml(Manifest(app_id, 3000, <<"repo">>, [repo |-> StrV(RepoUrl)])),
     GoodYaml(Manifest(app_id, 0, <<>>, <<>>)),
     GoodYaml(Without(Manifest(app_id, 3000, <<>>, <<>>), "tagline"))}

\* The manifest files of an application; a scan of a whole store draws from
\* fewer files per application
ManifestFiles(app_id, scan) ==
    IF scan
      THEN {TextFile(GoodYaml(Null)),
            TextFile(GoodYaml(Manifest(app_id, 3000, <<>>, <<>>))),
            TextFile(GoodYaml(Manifest(app_id, 3000, <<"repo">>,
                                       [repo |-> StrV(RepoUrl)]))),
            TextFile(GoodYaml(Manifest(app_id, 70000, <<>>, <<>>)))}
      ELSE {AbsentFile, UnreadableFile}
             \cup {TextFile(c) : c \in ManifestTexts(app_id)}

Service(ks, f) == MapV(ks, f)
Compose(ks, f) == MapV(<<"services">>, [services |-> MapV(ks, f)])

GoodWeb ==
    Service(<<"restart", "user">>,
            [restart |-> StrV(OnFailure), user |-> StrV(<<"1000:1000">>)])

ComposeTexts(app_id) ==
    {SyntaxError,
     GoodYaml(Null),                                    \* an empty file
     GoodYaml(StrV(<<"services">>)),                    \* a scalar
     GoodYaml(EmptyMap),
     GoodYaml(MapV(<<"services">>, [services |-> Null])),
     GoodYaml(Compose(<<"web">>, [web |-> Null])),
     GoodYaml(Compose(<<"web">>, [web |-> GoodWeb])),
     GoodYaml(Compose(<<"web">>,
        [web |-> Service(<<"restart">>, [restart |-> StrV(Always)])])),
     GoodYaml(Compose(<<"web">>,
        [web |-> Service(<<"restart", "user", "environment">>,
           [restart |-> StrV(OnFailure), user |-> StrV(<<"1000:1000">>),
            environment |-> MapV(<<"DEBUG">>, [DEBUG |-> BoolV(TRUE)])])])),
     GoodYaml(Compose(<<"app_proxy", "web">>,
        [app_proxy |-> Service(<<"environment">>,
           [environment |-> MapV(<<"APP_HOST">>,
              [APP_HOST |-> StrV(<<app_id, "_", "web", "_", "2">>)])]),
         web |-> GoodWeb]))}

\* the text and the text after mock_variables: the same document, or one
\* that no longer parses; a scan of a whole store draws from fewer files
ComposeFiles(app_id, scan) ==
    IF scan
      THEN {[exists |-> TRUE, readable |-> TRUE, content |-> c, mocked |-> c] :
              c \in {SyntaxError, GoodYaml(Null),
                     GoodYaml(Compose(<<"web">>, [web |-> Null])),
                     GoodYaml(Compose(<<"web">>, [web |-> GoodWeb]))}}
      ELSE
    {[exists |-> FALSE, readable |-> FALSE, content |-> GoodYaml(Null),
      mocked |-> GoodYaml(Null)],
     [exists |-> TRUE, readable |-> FALSE, content |-> GoodYaml(Null),
      mocked |-> GoodYaml(Null)],
     [exists |-> TRUE, readable |-> TRUE, content |-> GoodYaml(EmptyMap),
      mocked |-> BadYaml("found character that cannot start any token")]}
    \cup {[exists |-> TRUE, readable |-> TRUE, content |-> c, mocked |-> c] :
            c \in ComposeTexts(app_id)}

StoreManifestFiles ==
    {AbsentFile, UnreadableFile,
     TextFile(GoodYaml(Null)),
     TextFile(GoodYaml(MapV(<<"id", "name">>,
        [id |-> StrV(<<"m", "y", "-", "s">>), name |-> StrV(<<"My Store">>)])))}

DataDir == <<"data">>
Listings(scan) ==
    IF scan
      THEN {{FileEntry(<<"umbrel-app.yml">>, "file"),
             FileEntry(DataDir, "directory")}}
      ELSE {{FileEntry(<<"umbrel-app.yml">>, "file")},
            {FileEntry(<<"umbrel-app.yml">>, "file"),
             FileEntry(DataDir, "directory")},
            {FileEntry(DataDir, "directory"),
             FileEntry(DataDir \o <<".gitkeep">>, "file")}}

Nets(scan) ==
    IF scan
      THEN {[pr |-> "200", repo |-> "200"], [pr |-> "404", repo |-> "403"]}
      ELSE {[pr |-> a, repo |-> b] :
              a \in {"200", "404", "403", "failure"}, b \in NetAnswers}

\* LintingContext: CLI-built (no manifests of other applications) and
\* API-built (with them)
OtherManifests ==
    <<GoodYaml(Manifest("a", 3000, <<>>, <<>>)),
      GoodYaml(Manifest("b", 3000, <<>>, <<>>))>>

PortZeroManifests ==
    <<GoodYaml(Manifest("a", 0, <<>>, <<>>)),
      GoodYaml(Manifest("b", 3000, <<>>, <<>>))>>

Contexts ==
    {[app_id |-> "", app_store_type |-> "community", is_new_submission |-> FALSE,
      pull_request_url |-> <<>>, all_app_manifests |-> <<>>],
     [app_id |-> "", app_store_type |-> "official", is_new_submission |-> TRUE,
      pull_request_url |-> OtherPrUrl, all_app_manifests |-> <<>>],
     [app_id |-> "", app_store_type |-> "community", is_new_submission |-> FALSE,
      pull_request_url |-> <<>>, all_app_manifests |-> OtherManifests],
     [app_id |-> "", app_store_type |-> "community", is_new_submission |-> FALSE,
      pull_request_url |-> <<>>, all_app_manifests |-> PortZeroManifests]}

---------------------------------------------------------------------------
(* The linter runs: lint_app, lint_app_store, lint_all_apps (core/linter.py) *)

NoReturn     == [kind |-> "none", value |-> EmptyResult]
Returned(r)  == [kind |-> "result", value |-> r]
RaisedOut    == [kind |-> "raised", value |-> EmptyResult]

NoManifestRun ==
    [called |-> FALSE, schemaFailed |-> FALSE, raised |-> FALSE, errors |-> <<>>]

LintInit ==
    /\ pc = "idle"
    /\ mode = "none"
    /\ ctx \in Contexts
    /\ ctx0 = ctx
    /\ apps = <<>>
    /\ cur = 0
    /\ dirFiles = {}
    /\ ghCache = <<>>
    /\ ghRequests = <<>>
    /\ appResult = EmptyResult
    /\ result = EmptyResult
    /\ stages = <<>>
    /\ merged = {}
    /\ returned = NoReturn
    /\ parsed = NotParsed
    /\ manifestRun = NoManifestRun
    /\ composeRun = NoComposeRun

\* linter.lint_app(directory, app_id, context)
CallLintApp ==
    /\ pc = "idle"
    /\ \E app_id \in AppIds \cup {AbsentAppId} :
          apps' = <<app_id>>
    /\ mode' = "app"
    /\ cur' = 1
    /\ pc' = "app_start"
    /\ UNCHANGED notLintVars
    /\ UNCHANGED <<ctx, ctx0, dirFiles, ghCache, ghRequests, appResult, result, stages,
                   merged, returned, parsed, manifestRun, composeRun>>

\* linter.lint_app_store(directory, context)
CallLintAppStore ==
    /\ pc = "idle"
    /\ mode' = "store"
    /\ \E file \in StoreManifestFiles, readmeExists \in BOOLEAN :
          returned' = Returned(LintAppStore(file, readmeExists, ctx))
    /\ pc' = "done"
    /\ UNCHANGED notLintVars
    /\ UNCHANGED <<ctx, ctx0, apps, cur, dirFiles, ghCache, ghRequests, appResult, result,
                   stages, merged, parsed, manifestRun, composeRun>>

\* linter.lint_all_apps(directory, context) on a directory that is itself
\* an application: return await self.lint_app(directory.parent, name, context)
CallLintAllAppsSingle ==
    /\ pc = "idle"
    /\ \E app_id \in AppIds : apps' = <<app_id>>
    /\ mode' = "single"
    /\ cur' = 1
    /\ pc' = "app_start"
    /\ UNCHANGED notLintVars
    /\ UNCHANGED <<ctx, ctx0, dirFiles, ghCache, ghRequests, appResult, result, stages,
                   merged, returned, parsed, manifestRun, composeRun>>

\* linter.lint_all_apps(directory, context) on a store: lint the store,
\* merge its findings, find the application directories
CallLintAllApps ==
    /\ pc = "idle"
    /\ mode' = "all"
    /\ \E file \in StoreManifestFiles, readmeExists \in BOOLEAN :
          LET store_result == LintAppStore(file, readmeExists, ctx)
          IN  result' = [result EXCEPT
                           !.errors  = @ \o store_result.errors,
                           !.success = @ /\ store_result.success]
    /\ \E found \in {<<>>, <<"a">>, <<"a", "b">>} :
          /\ apps' = found
          /\ cur' = IF found = <<>> THEN 0 ELSE 1
          /\ pc' = IF found = <<>> THEN "done" ELSE "app_start"
          /\ returned' = IF found = <<>> THEN Returned(result') ELSE returned
    /\ UNCHANGED notLintVars
    /\ UNCHANGED <<ctx, ctx0, dirFiles, ghCache, ghRequests, appResult, stages, merged,
                   parsed, manifestRun, composeRun>>

\* lint_app up to the manifest stage: the context's app_id, the directory
\* check, the directory listing
AppStart ==
    /\ pc = "app_start"
    /\ LET app_id == apps[cur]
       IN  /\ ctx' = [ctx EXCEPT !.app_id = app_id]
           /\ stages' = <<>>
           /\ IF app_id \notin AppIds
                THEN /\ appResult' = AddError(EmptyResult,
                            LintingError("app_directory_not_found", "error",
                              <<"App directory not found", app_id>>,
                              "App does not exist", <<app_id>>, <<>>))
                     /\ dirFiles' = {}
                     /\ pc' = "app_return"
                ELSE /\ appResult' = EmptyResult
                     /\ dirFiles' \in Listings(mode = "all")
                     /\ pc' = "manifest"
    /\ UNCHANGED notLintVars
    /\ UNCHANGED <<ctx0, apps, cur, mode, ghCache, ghRequests, result, merged, returned,
                   parsed, manifestRun, composeRun>>

\* lint_app: await self._validate_app_manifest(...), then add its findings
ManifestStage ==
    /\ pc = "manifest"
    /\ \E file \in ManifestFiles(apps[cur], mode = "all"),
          net \in Nets(mode = "all") :
          LET r == ValidateAppManifest(file, apps[cur], ctx, net, ghCache)
          IN  /\ ghCache' = r.cache
              /\ ghRequests' = ghRequests \o r.requests
              /\ parsed' = IF r.parsed.called THEN r.parsed ELSE parsed
              /\ manifestRun' =
                   [called |-> TRUE,
                    schemaFailed |-> /\ r.parsed.called /\ r.parsed.error = <<>>
                                     /\ IsMap(r.parsed.data)
                                     /\ ManifestViolations(r.parsed.data) # <<>>,
                    raised |-> r.raised, errors |-> r.errors]
              /\ IF r.raised
                   THEN /\ pc' = "raised"
                        /\ returned' = RaisedOut
                        /\ appResult' = appResult
                   ELSE /\ pc' = "compose"
                        /\ returned' = returned
                        /\ appResult' = AddAll(appResult, r.errors)
    /\ stages' = Append(stages, "manifest")
    /\ UNCHANGED notLintVars
    /\ UNCHANGED <<ctx, ctx0, apps, cur, mode, dirFiles, result, merged,
                   composeRun>>

\* _validate_docker_compose: the file checks, then the compose validator
ValidateDockerComposeFile(file, app_id, fs, config) ==
    IF ~file.exists
      THEN [raised |-> FALSE, rules |-> <<>>, parsed |-> NotParsed,
            errors |-> <<LintingError("missing_docker_compose_yml", "error",
                           <<"docker-compose.yml does not exist">>,
                           "Every app needs a docker compose file",
                           ComposeFile(app_id), <<>>)>>]
    ELSE IF ~file.readable
      THEN [raised |-> FALSE, rules |-> <<>>, parsed |-> NotParsed,
            errors |-> <<LintingError("file_read_error", "error",
                           <<"Failed to read docker-compose.yml">>,
                           "OSError", ComposeFile(app_id), <<>>)>>]
    ELSE ValidateDockerCompose(file, app_id, fs,
           [check_image_architectures |-> config.check_image_architectures])

\* lint_app: await self._validate_docker_compose(...), then add its findings
ComposeStage ==
    /\ pc = "compose"
    /\ \E file \in ComposeFiles(apps[cur], mode = "all") :
          LET r == ValidateDockerComposeFile(file, apps[cur], dirFiles, DefaultConfig)
          IN  /\ parsed' = IF r.parsed.called THEN r.parsed ELSE parsed
              /\ composeRun' =
                   [called |-> r.parsed.called,
                    syntaxOk |-> file.content.ok,
                    raised |-> r.raised, errors |-> r.errors, rules |-> r.rules]
              /\ IF r.raised
                   THEN /\ pc' = "raised"
                        /\ returned' = RaisedOut
                        /\ appResult' = appResult
                   ELSE /\ pc' = "structure"
                        /\ returned' = returned
                        /\ appResult' = AddAll(appResult, r.errors)
    /\ stages' = Append(stages, "compose")
    /\ UNCHANGED notLintVars
    /\ UNCHANGED <<ctx, ctx0, apps, cur, mode, dirFiles, ghCache, ghRequests, result,
                   merged, manifestRun>>

\* lint_app: self._validate_directory_structure(files), then add its findings
StructureStage ==
    /\ pc = "structure"
    /\ \E order \in Orders({f.path : f \in {g \in dirFiles : g.type = "directory"}}) :
          appResult' = AddAll(appResult, ValidateDirectoryStructure(dirFiles, order))
    /\ stages' = Append(stages, "structure")
    /\ pc' = "app_return"
    /\ UNCHANGED notLintVars
    /\ UNCHANGED <<ctx, ctx0, apps, cur, mode, dirFiles, ghCache, ghRequests, result,
                   merged, returned, parsed, manifestRun, composeRun>>

\* lint_app returns: to the caller of lint_app, or into lint_all_apps' loop
\* (result.errors.extend(...); result.success = result.success and ...)
AppReturn ==
    /\ pc = "app_return"
    /\ IF mode = "all"
         THEN /\ result' = [result EXCEPT
                              !.errors  = @ \o appResult.errors,
                              !.success = @ /\ appResult.success]
              /\ merged' = merged \cup {apps[cur]}
              /\ IF cur < Len(apps)
                   THEN /\ cur' = cur + 1
                        /\ pc' = "app_start"
                        /\ returned' = returned
                   ELSE /\ cur' = cur
                        /\ pc' = "done"
                        /\ returned' = Returned(result')
         ELSE /\ returned' = Returned(appResult)
              /\ pc' = "done"
              /\ UNCHANGED <<result, merged, cur>>
    /\ UNCHANGED notLintVars
    /\ UNCHANGED <<ctx, ctx0, apps, mode, dirFiles, ghCache, ghRequests, appResult, stages,
                   parsed, manifestRun, composeRun>>

\* the exit of the lint command on the report the linter returned:
\* typer.Exit(1) or a plain return
ExitCodeOnAnyFinding(report, strict_mode) ==
    IF report.errors # <<>> THEN 1 ELSE 0

ExitCode(report, strict_mode) ==
    IF HasSeverity(report, "error")
         \/ (strict_mode /\ HasSeverity(report, "warning"))
      THEN 1
      ELSE 0

CliInit == strict \in BOOLEAN /\ exitCode = -1

\* the lint command once linter.lint_app or linter.lint_all_apps has ended:
\* the exit by the report, or by "except Exception" when the linter raised
LintCommandExit ==
    /\ pc \in {"done", "raised"}
    /\ mode \in {"app", "single", "all"}
    /\ exitCode = -1
    /\ exitCode' = IF pc = "raised" THEN 1 ELSE ExitCode(returned.value, strict)
    /\ UNCHANGED strict
    /\ UNCHANGED notCliVars

LintNext ==
    \/ LintCommandExit
    \/ CallLintApp
    \/ CallLintAppStore
    \/ CallLintAllAppsSingle
    \/ CallLintAllApps
    \/ AppStart
    \/ ManifestStage
    \/ ComposeStage
    \/ StructureStage
    \/ AppReturn

---------------------------------------------------------------------------
(* validators/variable_mocker.py.  A text is a sequence of characters. *)

\* the characters of the class [a-zA-Z0-9_\-:] of the placeholder pattern
NameChars ==
    {"a", "b", "c", "d", "e", "f", "g", "h", "i", "j", "k", "l", "m", "n",
     "o", "p", "q", "r", "s", "t", "u", "v", "w", "x", "y", "z", "A", "B",
     "C", "D", "E", "F", "G", "H", "I", "J", "K", "L", "M", "N", "O", "P",
     "Q", "R", "S", "T", "U", "V", "W", "X", "Y", "Z", "0", "1", "2", "3",
     "4", "5", "6", "7", "8", "9", "_", "-", ":"}

\* the class of the placeholder pattern with "/" added
NameCharOrSlash(c) == c \in NameChars \cup {"/"}

\* whether c is in the class of the placeholder pattern
IsNameChar(c) == c \in NameChars

RECURSIVE NameRun(_, _)
\* the length of the longest run of name characters of s from position i
NameRun(s, i) ==
    IF i > Len(s) \/ ~IsNameChar(s[i]) THEN 0 ELSE 1 + NameRun(s, i + 1)

RECURSIVE FindAll(_, _)
\* re.findall(pattern, content) from position i: the variable names of the
\* non-overlapping matches of \$(?:(NAME+)|\{(NAME+)\}), left to right
FindAll(s, i) ==
    IF i > Len(s) THEN <<>>
    ELSE IF s[i] # "$" THEN FindAll(s, i + 1)
    ELSE LET n == NameRun(s, i + 1)
             m == NameRun(s, i + 2)
         IN  IF n > 0
               THEN <<SubSeq(s, i + 1, i + n)>> \o FindAll(s, i + n + 1)
             ELSE IF /\ i + 1 <= Len(s) /\ s[i + 1] = "{"
                     /\ m > 0
                     /\ i + 2 + m <= Len(s) /\ s[i + 2 + m] = "}"
               THEN <<SubSeq(s, i + 2, i + 1 + m)>> \o FindAll(s, i + m + 3)
             ELSE FindAll(s, i + 1)

\* Python's s[a:b] for 0-based a and b >= 0, a negative a counted from the end
PySlice(s, a, b) ==
    LET lo == IF a < 0 THEN (IF a + Len(s) < 0 THEN 0 ELSE a + Len(s)) ELSE a
        hi == IF b > Len(s) THEN Len(s) ELSE b
    IN  SubSeq(s, lo + 1, hi)

\* _extract_variables: one entry per match; full_variable is the braced form
\* only when a "{" lies in the window after the first "$NAME" of the text
ExtractVariables(content) ==
    LET matches == FindAll(content, 1)
    IN  [k \in 1..Len(matches) |->
          LET variable == matches[k]
              dollar   == <<"$">> \o variable
              at       == Find(content, dollar) - 1        \* str.find, -1 if absent
              window   == PySlice(content, at, at + Len(dollar) + 1)
          IN  [full_variable |->
                 IF Contains(window, <<"{">>)
                   THEN <<"$", "{">> \o variable \o <<"}">>
                   ELSE dollar,
               variable |-> variable,
               mock |-> <<>>]]

\* the keyword table of _find_mocks in the order the code tests it; the
\* mock of "_PORT" is drawn at random
MockTable ==
    <<[key |-> <<"_", "I", "P">>, mock |-> <<"1", "0", ".", "1", "0", ".", "1", "0", ".", "1", "0">>],
      [key |-> <<"_", "P", "O", "R", "T">>, mock |-> <<>>],
      [key |-> <<"_", "P", "A", "S", "S">>, mock |-> <<"p", "a", "s", "s", "w", "o", "r", "d">>],
      [key |-> <<"_", "U", "S", "E", "R">>, mock |-> <<"u", "s", "e", "r", "n", "a", "m", "e">>],
      [key |-> <<"_", "D", "I", "R">>, mock |-> <<"/", "p", "a", "t", "h", "/", "t", "o", "/", "d", "i", "r">>],
      [key |-> <<"_", "P", "A", "T", "H">>, mock |-> <<"/", "s", "o", "m", "e", "/", "p", "a", "t", "h">>],
      [key |-> <<"_", "S", "E", "R", "V", "I", "C", "E">>, mock |-> <<"s", "e", "r", "v", "i", "c", "e">>],
      [key |-> <<"_", "S", "E", "E", "D">>, mock |-> <<"s", "e", "e", "d">>],
      [key |-> <<"_", "C", "O", "N", "F", "I", "G">>, mock |-> <<"/", "p", "a", "t", "h", "/", "t", "o", "/", "c", "o", "n", "f", "i", "g">>],
      [key |-> <<"_", "M", "O", "D", "E">>, mock |-> <<"p", "r", "o", "d", "u", "c", "t", "i", "o", "n">>],
      [key |-> <<"_", "N", "E", "T", "W", "O", "R", "K">>, mock |-> <<"n", "e", "t", "w", "o", "r", "k">>],
      [key |-> <<"_", "D", "O", "M", "A", "I", "N">>, mock |-> <<"d", "o", "m", "a", "i", "n", ".", "c", "o", "m">>],
      [key |-> <<"_", "N", "A", "M", "E">>, mock |-> <<"n", "a", "m", "e">>],
      [key |-> <<"_", "V", "E", "R", "S", "I", "O", "N">>, mock |-> <<"1", ".", "0", ".", "0">>],
      [key |-> <<"_", "R", "O", "O", "T">>, mock |-> <<"/", "p", "a", "t", "h", "/", "t", "o", "/", "r", "o", "o", "t">>],
      [key |-> <<"_", "K", "E", "Y">>, mock |-> <<"k", "e", "y">>],
      [key |-> <<"_", "S", "E", "C", "R", "E", "T">>, mock |-> <<"s", "e", "c", "r", "e", "t">>],
      [key |-> <<"_", "T", "O", "K", "E", "N">>, mock |-> <<"t", "o", "k", "e", "n">>],
      [key |-> <<"_", "H", "O", "S", "T">>, mock |-> <<"h", "o", "s", "t">>]>>

Mocked == <<"m", "o", "c", "k", "e", "d">>

\* str(random.randint(1024, 65535)): the two ends of the range
PortSamples == {<<"1", "0", "2", "4">>, <<"6", "5", "5", "3", "5">>}

\* the mock by the last keyword of the table the name contains
MockOfLastKeyword(variable, port) ==
    LET hits == {k \in 1..Len(MockTable) : Contains(variable, MockTable[k].key)}
    IN  IF hits = {} THEN Mocked
        ELSE LET k == CHOOSE h \in hits : \A g \in hits : h >= g
             IN  IF MockTable[k].key = <<"_", "P", "O", "R", "T">> THEN port
                 ELSE MockTable[k].mock

\* the mock of one variable; port is the random draw of this variable
MockOf(variable, port) ==
    LET hits == {k \in 1..Len(MockTable) : Contains(variable, MockTable[k].key)}
    IN  IF hits = {} THEN Mocked
        ELSE LET k == CHOOSE h \in hits : \A g \in hits : h <= g
             IN  IF MockTable[k].key = <<"_", "P", "O", "R", "T">> THEN port
                 ELSE MockTable[k].mock

\* _find_mocks; ports[k] is the random draw made for the k-th variable
FindMocks(variables, ports) ==
    [k \in 1..Len(variables) |->
       [variables[k] EXCEPT !.mock = MockOf(variables[k].variable, ports[k])]]

RECURSIVE ReplaceVariables(_, _)
\* _replace_variables: content.replace(full_variable, mock), variable by
\* variable
ReplaceVariables(content, variables) ==
    IF variables = <<>> THEN content
    ELSE ReplaceVariables(
           Replace(content, Head(variables).full_variable, Head(variables).mock),
           Tail(variables))

\* mock_variables
MockVariables(content, ports) ==
    ReplaceVariables(content, FindMocks(ExtractVariables(content), ports))

\* the random draws one mock_variables call on content can make
PortDraws(content) == [1..Len(FindAll(content, 1)) -> PortSamples]

(* The mocker under test: a text, its mock, the mock of its mock *)

MaxPieces == 4      \* pieces a text is made of

Pieces ==
    {<<"$">>, <<"$", "A">>, <<"$", "{", "A", "}">>, <<"{">>, <<" ">>,
     <<"_", "P", "O", "R", "T">>, <<"_", "D", "I", "R">>}

Texts == {Concat(ps) : ps \in UNION {[1..n -> Pieces] : n \in 0..MaxPieces}}

MockInit ==
    /\ text \in Texts
    /\ mocked = <<>>
    /\ mocked2 = <<>>
    /\ mpc = "text"

\* mocked = mocker.mock_variables(text)
CallMockVariables ==
    /\ mpc = "text"
    /\ \E ports \in PortDraws(text) : mocked' = MockVariables(text, ports)
    /\ mpc' = "mocked"
    /\ UNCHANGED <<text, mocked2>>
    /\ UNCHANGED notMockVars

\* mocked2 = mocker.mock_variables(mocked)
CallMockVariablesAgain ==
    /\ mpc = "mocked"
    /\ \E ports \in PortDraws(mocked) : mocked2' = MockVariables(mocked, ports)
    /\ mpc' = "again"
    /\ UNCHANGED <<text, mocked>>
    /\ UNCHANGED notMockVars

MockNext == CallMockVariables \/ CallMockVariablesAgain

(* _find_mocks under test: one variable whose name holds up to two keywords *)

VariableNames ==
    {<<"A", "P", "P">> \o a \o b :
       a, b \in {MockTable[k].key : k \in 1..Len(MockTable)} \cup {<<>>}}

FindInit ==
    /\ \E name \in VariableNames :
          mockedVariables =
            <<[full_variable |-> <<"$">> \o name, variable |-> name,
               mock |-> <<>>]>>
    /\ findPc = "extracted"

\* mocked_variables = self._find_mocks(variables)
CallFindMocks ==
    /\ findPc = "extracted"
    /\ \E ports \in [1..Len(mockedVariables) -> PortSamples] :
          mockedVariables' = FindMocks(mockedVariables, ports)
    /\ findPc' = "mocked"
    /\ UNCHANGED notFindVars

FindNext == CallFindMocks

---------------------------------------------------------------------------
(* validators/docker_image_validator.py: DockerImage *)

\* Python's None in a text field
None == <<"None">>

DockerImage(host, path, tag, digest) ==
    [host |-> host, path |-> path, tag |-> tag, digest |-> digest]

\* DockerImage.from_string
FromString(image_string) ==
    LET hasDigest  == Contains(image_string, <<"@">>)
        image_part == IF hasDigest THEN RSplit1(image_string, "@")[1]
                                   ELSE image_string
        digest     == IF hasDigest THEN RSplit1(image_string, "@")[2] ELSE None
        hasTag     == Contains(image_part, <<":">>)
        name_part  == IF hasTag THEN RSplit1(image_part, ":")[1] ELSE image_part
        tag        == IF hasTag THEN RSplit1(image_part, ":")[2] ELSE None
        parts      == Split(name_part, "/")
    IN  IF Len(parts) = 1
          THEN DockerImage(<<"d", "o", "c", "k", "e", "r", ".", "i", "o">>, <<"l", "i", "b", "r", "a", "r", "y", "/">> \o parts[1],
                           tag, digest)
        ELSE IF Len(parts) = 2
          THEN IF Contains(parts[1], <<".">>) \/ Contains(parts[1], <<":">>)
                 THEN DockerImage(parts[1], parts[2], tag, digest)
                 ELSE DockerImage(<<"d", "o", "c", "k", "e", "r", ".", "i", "o">>, Join(parts, "/"), tag, digest)
        ELSE DockerImage(parts[1], Join(Tail(parts), "/"), tag, digest)

\* DockerImage.__str__: tag and digest only when truthy
ImageToString(img) ==
    img.host \o <<"/">> \o img.path
      \o (IF img.tag # None /\ img.tag # <<>> THEN <<":">> \o img.tag ELSE <<>>)
      \o (IF img.digest # None /\ img.digest # <<>>
            THEN <<"@">> \o img.digest ELSE <<>>)

(* The image references under test *)

DigestHexLen == 64  \* hexadecimal digits of a sha256 digest

Hosts      == {<<"r", ".", "i", "o">>, <<"h", ":", "5">>, <<"g", "c", "r">>}
Namespaces == {<<"n", "s">>, <<"o">>}
Names      == {<<"a", "p", "p">>, <<"d", "b">>}
Tags       == {<<"1", ".", "2", ".", "3">>, <<"v", "1">>}
HexDigits  == {"a", "0", "f"}
\* digests: one hexadecimal digit repeated, and two alternating
Hexes ==
    {[i \in 1..DigestHexLen |-> d] : d \in HexDigits}
      \cup {[i \in 1..DigestHexLen |-> IF i % 2 = 0 THEN "9" ELSE "c"]}
Sha256(hex) == <<"s", "h", "a", "2", "5", "6", ":">> \o hex

\* <host>/<namespace>/<name>:<tag>@sha256:<hex>
Reference(host, ns, name, tag, hex) ==
    host \o <<"/">> \o ns \o <<"/">> \o name \o <<":">> \o tag
      \o <<"@">> \o Sha256(hex)

\* references with and without each optional segment
ImageStrings ==
    {h \o n \o name \o t \o d :
       h \in {<<>>} \cup {x \o <<"/">> : x \in Hosts},
       n \in {<<>>} \cup {x \o <<"/">> : x \in Namespaces},
       name \in Names,
       t \in {<<>>, <<":">>} \cup {<<":">> \o x : x \in Tags},
       d \in {<<>>} \cup {<<"@">> \o Sha256(x) : x \in Hexes}}

NoImage == DockerImage(<<>>, <<>>, <<>>, <<>>)

ImageInit ==
    /\ imageString \in ImageStrings
    /\ image = NoImage
    /\ imageStr = <<>>

\* image = DockerImage.from_string(imageString)
CallFromString ==
    /\ image = NoImage
    /\ image' = FromString(imageString)
    /\ UNCHANGED <<imageString, imageStr>>
    /\ UNCHANGED notImgVars

\* imageStr = str(image)
CallStr ==
    /\ image # NoImage
    /\ imageStr = <<>>
    /\ imageStr' = ImageToString(image)
    /\ UNCHANGED <<imageString, image>>
    /\ UNCHANGED notImgVars

ImageNext == CallFromString \/ CallStr

---------------------------------------------------------------------------
(* validators/docker_image_validator.py: validate_images and the registry
   client.  Image strings, hosts and failure messages are sequences of
   characters. *)

Letters ==
    {"a", "b", "c", "d", "e", "f", "g", "h", "i", "j", "k", "l", "m", "n",
     "o", "p", "q", "r", "s", "t", "u", "v", "w", "x", "y", "z", "A", "B",
     "C", "D", "E", "F", "G", "H", "I", "J", "K", "L", "M", "N", "O", "P",
     "Q", "R", "S", "T", "U", "V", "W", "X", "Y", "Z"}
\* [a-zA-Z0-9./:_-]
ImageNameChars == Letters \cup Digits \cup {".", "/", ":", "_", "-"}
\* [0-9a-fA-F]
HexChars ==
    Digits \cup {"a", "b", "c", "d", "e", "f", "A", "B", "C", "D", "E", "F"}

\* <name>:<tag>@sha256:<64 hex> from the first character of t to its last:
\* the last 64 characters are the digest, "@sha256:" stands before them, and
\* some ":" cuts what is left into a name of the name class and a tag
\* without "@"
ExactReference(t) ==
    LET n  == Len(t)
        at == n - DigestHexLen - 7
    IN  /\ at >= 4
        /\ SubSeq(t, at, at + 7) = <<"@", "s", "h", "a", "2", "5", "6", ":">>
        /\ \A i \in (at + 8)..n : t[i] \in HexChars
        /\ \E c \in 2..(at - 2) :
              /\ t[c] = ":"
              /\ \A i \in 1..(c - 1) : t[i] \in ImageNameChars
              /\ \A i \in (c + 1)..(at - 1) : t[i] # "@"

\* re.match of the image pattern of validate_images on image_string:
\* "$" matches at the end of the string and before a newline that ends it
Conforms(image_string) ==
    \/ ExactReference(image_string)
    \/ /\ image_string # <<>>
       /\ image_string[Len(image_string)] = "\n"
       /\ ExactReference(SubSeq(image_string, 1, Len(image_string) - 1))

\* the services of the compose file, in document order
ServiceNames == <<"web", "db">>
ImagePath(i) == <<"services", ServiceNames[i], "image">>

Latest == <<"l", "a", "t", "e", "s", "t">>

\* validate_images, the findings on the format of one image value that
\* from_string parsed
FormatFindings(i, image_string, app_id) ==
    IF ~Conforms(image_string)
      THEN <<LintingError("invalid_docker_image_name", "error",
               <<"Invalid image name", image_string>>,
               "Images must include an immutable digest",
               ComposeFile(app_id), ImagePath(i))>>
    ELSE IF FromString(image_string).tag = Latest
      THEN <<LintingError("invalid_docker_image_name", "warning",
               <<"Invalid image tag", Latest>>,
               "Images should not use the latest tag",
               ComposeFile(app_id), ImagePath(i))>>
    ELSE <<>>

\* validate_images, the finding on an image value from_string raises on
UnparsedFinding(i, value, app_id) ==
    <<LintingError("invalid_docker_image_name", "error",
        <<"Invalid image name", value>>, "argument is not iterable",
        ComposeFile(app_id), ImagePath(i))>>

\* DockerImage.api_host
ApiHost(img) ==
    IF img.host \in {<<"d", "o", "c", "k", "e", "r", ".", "i", "o">>, <<"w",
          "w", "w", ".", "d", "o", "c", "k", "e", "r", ".", "c", "o", "m">>}
      THEN <<"r", "e", "g", "i", "s", "t", "r", "y", "-", "1", ".", "d", "o",
            "c", "k", "e", "r", ".", "i", "o">>
      ELSE img.host

\* DockerImage.api_path
ApiPath(img) == img.path

WellKnownRegistries ==
    {<<"d", "o", "c", "k", "e", "r", ".", "i", "o">>, <<"r", "e", "g", "i",
          "s", "t", "r", "y", "-", "1", ".", "d", "o", "c", "k", "e", "r",
          ".", "i", "o">>, <<"g", "h", "c", "r", ".", "i", "o">>}

(* What the network answers *)

NoResponse == [kind |-> "none"]
\* an HTTP response: status and reason phrase, the WWW-Authenticate and
\* Content-Type headers ("" when absent) and the decoded JSON body
Response(status, reason, www_authenticate, content_type, body) ==
    [kind |-> "response", status |-> status, reason |-> reason,
     www_authenticate |-> www_authenticate, content_type |-> content_type,
     body |-> body]
\* an exception of the HTTP client (timeout, refused connection)
Failure(reason) == [kind |-> "failure", text |-> reason]
\* a body that is not JSON: response.json() raises
NotJson == [type |-> "invalid"]

\* _parse_www_authenticate: the parameters after the scheme, a later item
\* overwriting an earlier one of the same key.  The header is a sequence of
\* words and of the separators " ", ",", "=" and "\"".
ParseWwwAuthenticate(header) ==
    IF header = <<>> \/ ~Contains(header, <<" ">>) THEN <<>>
    ELSE LET items == SelectSeq(Split(Split1(header, " ")[2], ","),
                                LAMBDA item : Contains(item, <<"=">>))
             k(i)  == Strip(Split1(items[i], "=")[1], Whitespace)
             v(i)  == Strip(Strip(Split1(items[i], "=")[2], Whitespace),
                            {"\""})
             last(key) == CHOOSE i \in 1..Len(items) :
                            /\ k(i) = key
                            /\ \A j \in (i + 1)..Len(items) : k(j) # key
         IN  [key \in {k(i) : i \in 1..Len(items)} |-> v(last(key))]

\* params.get(key): <<>> stands for None
Param(params, key) ==
    IF key \in DOMAIN params THEN params[key] ELSE <<>>

\* str(n) of a natural number
DigitChars == <<"0", "1", "2", "3", "4", "5", "6", "7", "8", "9">>
RECURSIVE IntToChars(_)
IntToChars(n) ==
    IF n < 10 THEN <<DigitChars[n + 1]>>
    ELSE IntToChars(n \div 10) \o <<DigitChars[(n % 10) + 1]>>

\* get_architectures: ref = image.digest or image.tag or "latest"
ManifestRef(img) ==
    IF img.digest # None /\ img.digest # <<>> THEN img.digest
    ELSE IF img.tag # None /\ img.tag # <<>> THEN img.tag
    ELSE Latest

\* a request for the manifest, with the bearer token it carries (Null: none)
ManifestRequest(img, bearer) ==
    [kind |-> "manifest", host |-> ApiHost(img), path |-> ApiPath(img),
     ref |-> ManifestRef(img), bearer |-> bearer]

\* scope: the challenge's, or repository:<path>:pull
TokenScope(img, params) ==
    IF Param(params, <<"scope">>) # <<>>
      THEN <<Param(params, <<"scope">>)>>
      ELSE <<<<"repository:">>, ApiPath(img), <<":pull">>>>

\* the request to the realm of the challenge
TokenRequest(img, params) ==
    [kind |-> "token", realm |-> Param(params, <<"realm">>),
     scope |-> TokenScope(img, params),
     service |-> Param(params, <<"service">>)]

\* the request of is_registry, with what the host answered
PingRequest(host, answer) == [kind |-> "ping", host |-> host, answer |-> answer]

\* is_registry that takes only a 200 response for a registry
IsRegistryAnswerOkOnly(r) ==
    r.kind = "response" /\ r.status = 200

\* is_registry on the answer of https://<host>/v2/
IsRegistryAnswer(r) ==
    /\ r.kind = "response"
    /\ \/ r.status \in {200, 401}
       \/ r.api_version = <<"registry/2.0">>

\* token_resp.json().get("token") or token_resp.json().get("access_token")
TokenOf(body) ==
    IF Truthy(Get(body, "token", Null)) THEN Get(body, "token", Null)
    ELSE Get(body, "access_token", Null)

\* get_architectures that reads the entries of a manifest list without
\* defaults, an absent os or architecture staying None
ArchitecturesWithoutDefaults(r) ==
    IF \/ Contains(r.content_type, <<"manifest.list">>)
       \/ Contains(r.content_type, <<"image.index">>)
       \/ Truthy(Get(r.body, "manifests", Null))
      THEN LET refs == Get(r.body, "manifests", ListV(<<>>)).items
           IN  [i \in 1..Len(refs) |->
                  LET platform == Get(refs[i], "platform", EmptyMap)
                  IN  [os |-> Get(platform, "os", StrV(None)),
                       architecture |->
                         Get(platform, "architecture", StrV(None)),
                       variant |-> Get(platform, "variant", Null)]]
      ELSE <<[os |-> StrV(<<"linux">>), architecture |-> StrV(<<"amd64">>)]>>

\* get_architectures on the manifest it decoded
Architectures(r) ==
    IF \/ Contains(r.content_type, <<"manifest.list">>)
       \/ Contains(r.content_type, <<"image.index">>)
       \/ Truthy(Get(r.body, "manifests", Null))
      THEN LET refs == Get(r.body, "manifests", ListV(<<>>)).items
           IN  [i \in 1..Len(refs) |->
                  LET platform == Get(refs[i], "platform", EmptyMap)
                  IN  [os |-> Get(platform, "os", StrV(<<"linux">>)),
                       architecture |->
                         Get(platform, "architecture", StrV(<<"amd64">>)),
                       variant |-> Get(platform, "variant", Null)]]
      ELSE <<[os |-> StrV(<<"linux">>), architecture |-> StrV(<<"amd64">>)]>>

\* what get_architectures comes to on the response it holds at the end: the
\* tuples, or the exception it raises with its message
Resolved(architectures) ==
    [raised |-> FALSE, architectures |-> architectures, message |-> <<>>]
Unresolved(message) ==
    [raised |-> TRUE, architectures |-> <<>>, message |-> message]

GetArchitectures(img, r) ==
    IF r.kind = "failure"
      THEN Unresolved(<<"F", "a", "i", "l", "e", "d", " ", "t", "o", " ",
            "g", "e", "t", " ", "a", "r", "c", "h", "i", "t", "e", "c", "t",
            "u", "r", "e", "s", " ", "f", "o", "r", " ">>
                        \o ImageToString(img) \o <<":", " ">> \o r.text)
    ELSE IF r.status \notin 200..299
      THEN Unresolved(IntToChars(r.status) \o <<" ">> \o r.reason)
    ELSE IF r.body.type = "invalid"
      THEN Unresolved(<<"F", "a", "i", "l", "e", "d", " ", "t", "o", " ",
            "g", "e", "t", " ", "a", "r", "c", "h", "i", "t", "e", "c", "t",
            "u", "r", "e", "s", " ", "f", "o", "r", " ">>
                        \o ImageToString(img) \o <<":", " ", "E", "x", "p",
                              "e", "c", "t", "i", "n", "g", " ", "v", "a",
                              "l", "u", "e">>)
    ELSE Resolved(Architectures(r))

\* "401" in message or "Unauthorized" in message
Has401(message) ==
    \/ Contains(message, <<"4", "0", "1">>)
    \/ Contains(message, <<"U", "n", "a", "u", "t", "h", "o", "r", "i", "z",
          "e", "d">>)

HasArch(architectures, arch) ==
    \E i \in 1..Len(architectures) :
       /\ architectures[i].os = StrV(<<"linux">>)
       /\ architectures[i].architecture = StrV(<<arch>>)

\* validate_image after is_registry confirmed the host, on the outcome of
\* get_architectures; validate_images sets file and properties_path
ArchitectureFindings(i, img, outcome, app_id) ==
    IF outcome.raised
      THEN IF Has401(outcome.message)
             THEN <<LintingError("image_architecture_unverified", "info",
                      <<"Could not verify architectures for image",
                        ImageToString(img)>>,
                      "The registry requires authentication",
                      ComposeFile(app_id), ImagePath(i))>>
             ELSE <<LintingError("invalid_docker_image_name", "error",
                      <<"Invalid image name", ImageToString(img)>>,
                      outcome.message, ComposeFile(app_id), ImagePath(i))>>
    ELSE IF ~(HasArch(outcome.architectures, "arm64")
              /\ HasArch(outcome.architectures, "amd64"))
      THEN <<LintingError("invalid_image_architectures", "error",
               <<"Invalid image architectures for image",
                 ImageToString(img)>>,
               "The image does not support arm64 and amd64",
               ComposeFile(app_id), ImagePath(i))>>
    ELSE <<>>

\* validate_image on a host is_registry rejected
RegistryFinding(i, img, app_id) ==
    <<LintingError("invalid_docker_image_name", "error",
        <<"Invalid registry", ApiHost(img)>>,
        "The registry is not a valid Docker registry",
        ComposeFile(app_id), ImagePath(i))>>

(* The services and the answers under test *)

\* a digest holding the digits 4, 0, 1 in a row
Hex401 == [i \in 1..DigestHexLen |-> IF i = 1 THEN "4" ELSE IF i = 2 THEN "0"
                                     ELSE IF i = 3 THEN "1" ELSE "b"]
HexA   == [i \in 1..DigestHexLen |-> "a"]
HexC9  == [i \in 1..DigestHexLen |-> IF i % 2 = 0 THEN "9" ELSE "c"]

NginxLatest  == <<"n", "g", "i", "n", "x", ":", "l", "a", "t", "e", "s", "t">>
NginxPinned  == <<"n", "g", "i", "n", "x", ":", "l", "a", "t", "e", "s", "t",
      "@">> \o Sha256(HexA)
PrivatePinned == <<"h", ":", "5", "/", "a", "p", "p", ":", "v", "1",
      "@">> \o Sha256(HexC9)
Private401   == <<"r", ".", "i", "o", "/", "n", "s", "/", "a", "p", "p", ":",
      "1", ".", "2", ".", "3", "@">> \o Sha256(Hex401)
GhcrUntagged == <<"g", "h", "c", "r", ".", "i", "o", "/", "o", "/", "a", "p",
      "p", "@">> \o Sha256(HexA)

\* service_config.get("image") of the services: absent, empty, not a
\* string, and references with and without tag and digest
ImageValues ==
    {Null, StrV(<<>>), IntV(5), StrV(NginxLatest), StrV(NginxPinned),
     StrV(PrivatePinned), StrV(PrivatePinned \o <<"\n">>), StrV(Private401),
     StrV(GhcrUntagged)}

\* one service, or a second one after a service on a private registry (on
\* the same host, on another, without an image) or after one without an
\* image
ServiceLists ==
    {<<v>> : v \in ImageValues}
      \cup {<<StrV(PrivatePinned), w>> :
              w \in {Null, StrV(PrivatePinned), StrV(NginxLatest)}}
      \cup {<<Null, StrV(Private401)>>}

PingResponses ==
    {[kind |-> "response", status |-> 200, api_version |-> <<>>],
     [kind |-> "response", status |-> 401, api_version |-> <<>>],
     [kind |-> "response", status |-> 404,
           api_version |-> <<"registry/2.0">>],
     [kind |-> "response", status |-> 404, api_version |-> <<>>],
     Failure(<<"t", "i", "m", "e", "d", " ", "o", "u", "t">>)}

Platform(os, architecture) ==
    MapV(<<"platform">>,
         [platform |-> MapV(<<"os", "architecture">>,
                            [os |-> StrV(<<os>>),
                             architecture |-> StrV(<<architecture>>)])])
\* an entry whose platform names the architecture only
ArchOnly(architecture) ==
    MapV(<<"platform">>,
         [platform |-> MapV(<<"architecture">>,
                            [architecture |-> StrV(<<architecture>>)])])
ManifestList(entries) ==
    MapV(<<"manifests">>, [manifests |-> ListV(entries)])
SingleManifest == MapV(<<"config">>, [config |-> EmptyMap])

ListType   == <<"application/vnd.docker.distribution.", "manifest.list",
                ".v2+json">>
IndexType  == <<"application/vnd.oci.", "image.index", ".v1+json">>
SingleType == <<"application/vnd.docker.distribution.", "manifest",
                ".v2+json">>

ManifestBodies ==
    {ManifestList(<<Platform("linux", "arm64"), Platform("linux", "amd64")>>),
     ManifestList(<<Platform("linux", "amd64")>>),
     ManifestList(<<ArchOnly("arm64"), EmptyMap>>),
     ManifestList(<<Platform("windows", "amd64"), Platform("linux",
           "arm64")>>),
     ManifestList(<<>>)}

Ok == <<"O", "K">>
Challenges ==
    {<<>>,
     <<"Bearer">>,
     <<"Bearer", " ", "realm", "=", "\"", "https://auth.r.io/token", "\"",
       ",", "service", "=", "\"", "r.io", "\"", ",", "scope", "=", "\"",
       "repository:x:pull", "\"">>,
     <<"Bearer", " ", "realm", "=", "\"", "https://auth.r.io/token", "\"">>,
     <<"Bearer", " ", "service", "=", "\"", "r.io", "\"", ",", " ", "realm",
       "=", "\"", "\"">>}

\* the answers to a manifest request
ManifestResponses ==
    {Response(200, Ok, <<>>, ListType, b) : b \in ManifestBodies}
      \cup {Response(200, Ok, <<>>, SingleType, SingleManifest),
            Response(200, Ok, <<>>, <<>>,
              ManifestList(<<Platform("linux", "arm64"),
                             Platform("linux", "amd64")>>)),
            Response(200, Ok, <<>>, IndexType, SingleManifest),
            Response(200, Ok, <<>>, <<"text/html">>, NotJson),
            Response(404, <<"N", "o", "t", " ", "F", "o", "u", "n", "d">>,
                  <<>>, <<>>, NotJson),
            Response(500, <<"I", "n", "t", "e", "r", "n", "a", "l", " ", "S",
                  "e", "r", "v", "e", "r", " ", "E", "r", "r", "o", "r">>,
                  <<>>, <<>>, NotJson),
            Failure(<<"t", "i", "m", "e", "d", " ", "o", "u", "t">>)}
      \cup {Response(401, <<"U", "n", "a", "u", "t", "h", "o", "r", "i", "z",
            "e", "d">>, c, <<>>, NotJson) :
              c \in Challenges}

\* the answers of the realm
TokenResponses ==
    {Response(200, Ok, <<>>, <<>>,
       MapV(<<"token">>, [token |-> StrV(<<"t0">>)])),
     Response(200, Ok, <<>>, <<>>,
       MapV(<<"token", "access_token">>,
            [token |-> StrV(<<>>), access_token |-> StrV(<<"t1">>)])),
     Response(200, Ok, <<>>, <<>>, EmptyMap),
     Response(200, Ok, <<>>, <<>>, NotJson),
     Response(403, <<"F", "o", "r", "b", "i", "d", "d", "e", "n">>, <<>>,
           <<>>, NotJson),
     Failure(<<"c", "o", "n", "n", "e", "c", "t", "i", "o", "n", " ", "r",
           "e", "f", "u", "s", "e", "d">>)}

(* validate_images, one step for each value it awaits *)

\* what validate_images did with one service
Outcome(i, invoked, registry, outcome, log, final, findings) ==
    [service |-> i, invoked |-> invoked, registry |-> registry,
     outcome |-> outcome, requests |-> log, final |-> final,
     findings |-> findings]
NotResolved == Unresolved(<<>>)

RegInit ==
    /\ svcs \in ServiceLists
    /\ check \in BOOLEAN
    /\ rpc = "format"
    /\ ri = 1
    /\ requests = <<>>
    /\ regCache = <<>>
    /\ rerrors = <<>>
    /\ resp = NoResponse
    /\ token = Null
    /\ resolved = <<>>

\* the image validate_images holds for the service it is at
CurrentImage == FromString(svcs[ri].v)

\* on to the next service, or to the return
NextService ==
    /\ ri' = ri + 1
    /\ rpc' = IF ri + 1 > Len(svcs) THEN "done" ELSE "format"
    /\ requests' = <<>>
    /\ resp' = NoResponse
    /\ token' = Null

\* validate_images from the head of the loop body to the architecture check
CheckFormat ==
    /\ rpc = "format"
    /\ ri <= Len(svcs)
    /\ LET value == svcs[ri]
       IN  IF ~Truthy(value)
             THEN /\ resolved' = Append(resolved,
                       Outcome(ri, FALSE, FALSE, NotResolved, <<>>,
                             NoResponse,
                               <<>>))
                  /\ NextService
                  /\ UNCHANGED <<rerrors>>
           ELSE IF value.type # "str"
             THEN /\ rerrors' = rerrors \o UnparsedFinding(ri, value.v, "a")
                  /\ resolved' = Append(resolved,
                       Outcome(ri, FALSE, FALSE, NotResolved, <<>>,
                             NoResponse,
                               <<>>))
                  /\ NextService
           ELSE /\ rerrors' = rerrors \o FormatFindings(ri, value.v, "a")
                /\ IF check
                     THEN /\ rpc' = "registry"
                          /\ UNCHANGED <<ri, requests, resp, token, resolved>>
                     ELSE /\ resolved' = Append(resolved,
                               Outcome(ri, FALSE, FALSE, NotResolved, <<>>,
                                       NoResponse, <<>>))
                          /\ NextService
    /\ UNCHANGED <<svcs, check, regCache>>
    /\ UNCHANGED notRegVars

\* validate_image: is_registry(image.api_host), from the cache, from the
\* well-known hosts or from the answer of the host
IsRegistry ==
    /\ rpc = "registry"
    /\ LET host   == ApiHost(CurrentImage)
           cached == host \in DOMAIN regCache
           known  == host \in WellKnownRegistries
       IN  \E r \in IF cached \/ known THEN {NoResponse} ELSE PingResponses :
             LET is  == IF cached THEN regCache[host]
                        ELSE IF known THEN TRUE
                        ELSE IsRegistryAnswer(r)
                 log == IF cached \/ known THEN requests
                        ELSE Append(requests, PingRequest(host, r))
             IN  /\ regCache' = IF cached THEN regCache
                                ELSE (host :> is) @@ regCache
                 /\ IF is
                      THEN /\ rpc' = "manifest"
                           /\ requests' = log
                           /\ UNCHANGED <<ri, rerrors, resp, token, resolved>>
                      ELSE /\ rerrors' = rerrors
                                \o RegistryFinding(ri, CurrentImage, "a")
                           /\ resolved' = Append(resolved,
                                Outcome(ri, TRUE, FALSE, NotResolved, log,
                                        NoResponse,
                                        RegistryFinding(ri, CurrentImage,
                                              "a")))
                           /\ NextService
    /\ UNCHANGED <<svcs, check>>
    /\ UNCHANGED notRegVars

\* a realm for every 401 response, whatever its challenge
RealmOfAnyChallenge(r) ==
    IF r.kind = "response" /\ r.status = 401
      THEN IF Param(ParseWwwAuthenticate(r.www_authenticate), <<"realm">>) # <<>>
             THEN Param(ParseWwwAuthenticate(r.www_authenticate), <<"realm">>)
             ELSE <<"https://auth.docker.io/token">>
      ELSE <<>>

\* the realm of the challenge of a 401 response, <<>> when it names none
RealmOf(r) ==
    IF r.kind = "response" /\ r.status = 401
      THEN Param(ParseWwwAuthenticate(r.www_authenticate), <<"realm">>)
      ELSE <<>>

\* get_architectures: the first request for the manifest
GetManifest ==
    /\ rpc = "manifest"
    /\ \E r \in ManifestResponses :
          /\ requests' = Append(requests, ManifestRequest(CurrentImage, Null))
          /\ resp' = r
          /\ rpc' = IF RealmOf(r) # <<>> THEN "token" ELSE "resolve"
    /\ UNCHANGED <<svcs, check, ri, regCache, rerrors, token, resolved>>
    /\ UNCHANGED notRegVars

\* get_architectures: the request to the realm
GetToken ==
    /\ rpc = "token"
    /\ \E t \in TokenResponses :
          /\ requests' = Append(requests,
               TokenRequest(CurrentImage,
                            ParseWwwAuthenticate(resp.www_authenticate)))
          /\ IF t.kind = "failure"
               THEN /\ resp' = t
                    /\ rpc' = "resolve"
                    /\ UNCHANGED token
             ELSE IF t.status # 200
               THEN /\ rpc' = "resolve"
                    /\ UNCHANGED <<resp, token>>
             ELSE IF t.body.type = "invalid"
               THEN /\ resp' = Failure(<<"E", "x", "p", "e", "c", "t", "i",
                     "n", "g", " ", "v", "a", "l", "u", "e">>)
                    /\ rpc' = "resolve"
                    /\ UNCHANGED token
             ELSE IF Truthy(TokenOf(t.body))
               THEN /\ token' = TokenOf(t.body)
                    /\ rpc' = "retry"
                    /\ UNCHANGED resp
             ELSE /\ rpc' = "resolve"
                  /\ UNCHANGED <<resp, token>>
    /\ UNCHANGED <<svcs, check, ri, regCache, rerrors, resolved>>
    /\ UNCHANGED notRegVars

\* get_architectures: the request for the manifest again, with the token
RetryManifest ==
    /\ rpc = "retry"
    /\ \E r \in ManifestResponses :
          /\ requests' = Append(requests, ManifestRequest(CurrentImage,
                token))
          /\ resp' = r
    /\ rpc' = "resolve"
    /\ UNCHANGED <<svcs, check, ri, regCache, rerrors, token, resolved>>
    /\ UNCHANGED notRegVars

\* get_architectures from raise_for_status on, the rest of validate_image
\* and of the loop body of validate_images
Resolve ==
    /\ rpc = "resolve"
    /\ LET outcome  == GetArchitectures(CurrentImage, resp)
           findings == ArchitectureFindings(ri, CurrentImage, outcome, "a")
       IN  /\ rerrors' = rerrors \o findings
           /\ resolved' = Append(resolved,
                Outcome(ri, TRUE, TRUE, outcome, requests, resp, findings))
    /\ NextService
    /\ UNCHANGED <<svcs, check, regCache>>
    /\ UNCHANGED notRegVars

RegNext ==
    \/ CheckFormat
    \/ IsRegistry
    \/ GetManifest
    \/ GetToken
    \/ RetryManifest
    \/ Resolve

---------------------------------------------------------------------------
(* schemas/umbrel_app.py under the schema library: the errors of
   constructing UmbrelAppManifest and UmbrelAppStoreManifest from parsed
   data, field by field in declaration order, and the text str(e) of the
   exception that carries them.  Field names and messages are sequences of
   characters. *)

\* a field's name as text
NameOf(f) ==
    CASE f = "manifestVersion" -> <<"m", "a", "n", "i", "f", "e", "s", "t",
                                    "V", "e", "r", "s", "i", "o", "n">>
      [] f = "id"           -> <<"i", "d">>
      [] f = "name"         -> <<"n", "a", "m", "e">>
      [] f = "tagline"      -> <<"t", "a", "g", "l", "i", "n", "e">>
      [] f = "category"     -> <<"c", "a", "t", "e", "g", "o", "r", "y">>
      [] f = "version"      -> <<"v", "e", "r", "s", "i", "o", "n">>
      [] f = "port"         -> <<"p", "o", "r", "t">>
      [] f = "description"  -> <<"d", "e", "s", "c", "r", "i", "p", "t", "i",
                                 "o", "n">>
      [] f = "developer"    -> <<"d", "e", "v", "e", "l", "o", "p", "e", "r">>
      [] f = "submitter"    -> <<"s", "u", "b", "m", "i", "t", "t", "e", "r">>
      [] f = "submission"   -> <<"s", "u", "b", "m", "i", "s", "s", "i", "o",
                                 "n">>
      [] f = "support"      -> <<"s", "u", "p", "p", "o", "r", "t">>
      [] f = "website"      -> <<"w", "e", "b", "s", "i", "t", "e">>
      [] f = "path"         -> <<"p", "a", "t", "h">>
      [] f = "dependencies" -> <<"d", "e", "p", "e", "n", "d", "e", "n", "c",
                                 "i", "e", "s">>

\* type(value).__name__
TypeName(v) ==
    CASE v.type = "null" -> <<"N", "o", "n", "e", "T", "y", "p", "e">>
      [] v.type = "str"  -> <<"s", "t", "r">>
      [] v.type = "int"  -> <<"i", "n", "t">>
      [] v.type = "bool" -> <<"b", "o", "o", "l">>
      [] v.type = "list" -> <<"l", "i", "s", "t">>
      [] v.type = "map"  -> <<"d", "i", "c", "t">>

RECURSIVE Repr(_)
\* repr(value)
Repr(v) ==
    CASE v.type = "null" -> <<"N", "o", "n", "e">>
      [] v.type = "str"  -> <<"'">> \o v.v \o <<"'">>
      [] v.type = "int"  -> IntToChars(v.v)
      [] v.type = "bool" -> IF v.v THEN <<"T", "r", "u", "e">> ELSE <<"F",
                                                                      "a", "l", "s", "e">>
      [] v.type = "list" ->
           <<"[">> \o Concat([i \in 1..Len(v.items) |->
                        (IF i > 1 THEN <<",",
                                         " ">> ELSE <<>>) \o Repr(v.items[i])])
             \o <<"]">>
      [] v.type = "map"  ->
           <<"{">> \o Concat([i \in 1..Len(v.keys) |->
                        (IF i > 1 THEN <<",", " ">> ELSE <<>>)
                          \o <<"'">> \o NameOf(v.keys[i]) \o <<"'", ":", " ">>
                          \o Repr(v.fields[v.keys[i]])])
             \o <<"}">>

\* the input as an error line shows it: the repr, and of a repr of more
\* than 50 characters the first 25 and the last 24 around "..."
Shown(v) ==
    LET r == Repr(v)
    IN  IF Len(r) > 50
          THEN SubSeq(r, 1, 25) \o <<".", ".", ".">> \o SubSeq(r, Len(r) - 23, Len(r))
          ELSE r

\* one error of a validation: the field, the error type, its message, the
\* input it shows
FieldError(f, type, msg, input) ==
    [field |-> NameOf(f), type |-> type, msg |-> msg, input |-> input]

EndsWith(s, p) ==
    Len(p) <= Len(s) /\ SubSeq(s, Len(s) - Len(p) + 1, Len(s)) = p

\* s.count(c) for one character c
Count(s, c) == Cardinality({i \in 1..Len(s) : s[i] = c})

\* validate_id of UmbrelAppManifest
AppIdRule(v) ==
    IF StartsWith(v, ReservedPrefix)
      THEN <<"T", "h", "e", " ", "i", "d", " ", "o", "f", " ", "t", "h", "e",
             " ", "a", "p", "p", " ", "c", "a", "n", "'", "t", " ", "s", "t", "a", "r", "t", " ", "w", "i", "t", "h", " ", "'", "u", "m", "b", "r", "e", "l", "-", "a", "p", "p", "-", "s", "t", "o", "r", "e", "'", " ", "a", "s", " ", "i", "t", " ", "i", "s", " ", "t", "h", "e", " ", "i", "d", " ", "o", "f", " ", "t", "h", "e", " ", "a", "p", "p", " ", "r", "e", "p", "o", "s", "i", "t", "o", "r", "y">>
      ELSE <<>>

\* validate_tagline
TaglineRule(v) ==
    IF EndsWith(v, <<".">>) /\ Count(v, ".") = 1
      THEN <<"T", "a", "g", "l", "i", "n", "e", "s", " ", "s", "h", "o", "u",
             "l", "d", " ", "n", "o", "t", " ", "e", "n", "d", " ", "w", "i", "t", "h", " ", "a", " ", "p", "e", "r", "i", "o", "d">>
      ELSE <<>>

AllowedCategories ==
    {<<"files">>, <<"bitcoin">>, <<"media">>, <<"networking">>, <<"social">>,
     <<"automation">>, <<"finance">>, <<"ai">>, <<"developer">>}

\* validate_category
CategoryRule(v) ==
    IF v \notin AllowedCategories
      THEN <<"c", "a", "t", "e", "g", "o", "r", "y", " ", "m", "u", "s", "t",
             " ", "b", "e", " ", "o", "n", "e", " ", "o", "f", ":", " ", "f", "i", "l", "e", "s", ",", " ", "b", "i", "t", "c", "o", "i", "n", ",", " ", "m", "e", "d", "i", "a", ",", " ", "n", "e", "t", "w", "o", "r", "k", "i", "n", "g", ",", " ", "s", "o", "c", "i", "a", "l", ",", " ", "a", "u", "t", "o", "m", "a", "t", "i", "o", "n", ",", " ", "f", "i", "n", "a", "n", "c", "e", ",", " ", "a", "i", ",", " ", "d", "e", "v", "e", "l", "o", "p", "e", "r">>
      ELSE <<>>

\* validate_path
PathRule(v) ==
    IF v # <<>> /\ ~StartsWith(v, <<"/">>)
      THEN <<"p", "a", "t", "h", " ", "m", "u", "s", "t", " ", "s", "t", "a",
             "r", "t", " ", "w", "i", "t", "h", " ", "/">>
      ELSE <<>>

\* validate_id of UmbrelAppStoreManifest
StoreIdRule(v) ==
    IF StartsWith(v, ReservedPrefix)
      THEN <<"T", "h", "e", " ", "i", "d", " ", "o", "f", " ", "t", "h", "e",
             " ", "a", "p", "p", " ", "c", "a", "n", "'", "t", " ", "s", "t", "a", "r", "t", " ", "w", "i", "t", "h", " ", "'", "u", "m", "b", "r", "e", "l", "-", "a", "p", "p", "-", "s", "t", "o", "r", "e", "'", " ", "a", "s", " ", "i", "t", " ", "i", "s", " ", "t", "h", "e", " ", "i", "d", " ", "o", "f", " ", "t", "h", "e", " ", "o", "f", "f", "i", "c", "i", "a", "l", " ", "U", "m", "b", "r", "e", "l", " ", "A", "p", "p", " ", "S", "t", "o", "r", "e", ".">>
    ELSE IF ~StoreIdFormat(v)
      THEN <<"T", "h", "e", " ", "i", "d", " ", "o", "f", " ", "t", "h", "e",
             " ", "a", "p", "p", " ", "s", "h", "o", "u", "l", "d", " ", "c", "o", "n", "t", "a", "i", "n", " ", "o", "n", "l", "y", " ", "a", "l", "p", "h", "a", "b", "e", "t", "s", " ", "(", "'", "a", "'", " ", "t", "o", " ", "'", "z", "'", ")", " ", "a", "n", "d", " ", "d", "a", "s", "h", "e", "s", " ", "(", "'", "-", "'", ")", ".">>
    ELSE <<>>

\* the @validator a model registers for a str field: <<>>, or the text of
\* the ValueError it raises
Validator(model, f, v) ==
    CASE model = "app" /\ f = "id"       -> AppIdRule(v)
      [] model = "app" /\ f = "tagline"  -> TaglineRule(v)
      [] model = "app" /\ f = "category" -> CategoryRule(v)
      [] model = "app" /\ f = "path"     -> PathRule(v)
      [] model = "store" /\ f = "id"     -> StoreIdRule(v)
      [] OTHER -> <<>>

\* a str field of a model with min_length and max_length (0: none) and the
\* validator registered for it, run last
StrField(model, f, v, min_length, max_length) ==
    IF v.type # "str"
      THEN <<FieldError(f, <<"s", "t", "r", "i", "n", "g", "_", "t", "y",
                             "p", "e">>,
               <<"I", "n", "p", "u", "t", " ", "s", "h", "o", "u", "l", "d",
                 " ", "b", "e", " ", "a", " ", "v", "a", "l", "i", "d", " ", "s", "t", "r", "i", "n", "g">>, v)>>
    ELSE IF Len(v.v) < min_length
      THEN <<FieldError(f, <<"s", "t", "r", "i", "n", "g", "_", "t", "o",
                             "o", "_", "s", "h", "o", "r", "t">>,
               <<"S", "t", "r", "i", "n", "g", " ", "s", "h", "o", "u", "l",
                 "d", " ", "h", "a", "v", "e", " ", "a", "t", " ", "l", "e", "a", "s", "t", " ">> \o IntToChars(min_length)
                 \o (IF min_length = 1 THEN <<" ", "c", "h", "a", "r", "a",
                                              "c", "t", "e", "r">>
                                       ELSE <<" ", "c", "h", "a", "r", "a",
                                              "c", "t", "e", "r", "s">>), v)>>
    ELSE IF max_length > 0 /\ Len(v.v) > max_length
      THEN <<FieldError(f, <<"s", "t", "r", "i", "n", "g", "_", "t", "o",
                             "o", "_", "l", "o", "n", "g">>,
               <<"S", "t", "r", "i", "n", "g", " ", "s", "h", "o", "u", "l",
                 "d", " ", "h", "a", "v", "e", " ", "a", "t", " ", "m", "o", "s", "t", " ">> \o IntToChars(max_length)
                 \o (IF max_length = 1 THEN <<" ", "c", "h", "a", "r", "a",
                                              "c", "t", "e", "r">>
                                       ELSE <<" ", "c", "h", "a", "r", "a",
                                              "c", "t", "e", "r", "s">>), v)>>
    ELSE IF Validator(model, f, v.v) # <<>>
      THEN <<FieldError(f, <<"v", "a", "l", "u", "e", "_", "e", "r", "r",
                             "o", "r">>,
               <<"V", "a", "l", "u", "e", " ", "e", "r", "r", "o", "r", ",",
                 " ">> \o Validator(model, f, v.v), v)>>
    ELSE <<>>

\* the value the data gives for a field, None when it gives none
Given(data, f) == IF f \in DOMAIN data.fields THEN data.fields[f] ELSE Null

\* a required field: "Field required" when the data lacks it, else the
\* errors of its value
Required(data, f, errors) ==
    IF f \notin DOMAIN data.fields
      THEN <<FieldError(f, <<"m", "i", "s", "s", "i", "n", "g">>, <<"F", "i",
                                                                    "e", "l", "d", " ", "r", "e", "q", "u", "i", "r", "e", "d">>, data)>>
      ELSE errors

\* manifestVersion: float | int, ge=1, le=2, and validate_manifest_version;
\* for the integers the model draws.  Each member of the union reports.
ManifestVersionErrors(v) ==
    IF v.type # "int"
      THEN <<[field |-> <<"m", "a", "n", "i", "f", "e", "s", "t", "V", "e",
                          "r", "s", "i", "o", "n", ".", "f", "l", "o", "a", "t">>, type |-> <<"f", "l", "o", "a", "t", "_", "t", "y", "p", "e">>,
              msg |-> <<"I", "n", "p", "u", "t", " ", "s", "h", "o", "u",
                        "l", "d", " ", "b", "e", " ", "a", " ", "v", "a", "l", "i", "d", " ", "n", "u", "m", "b", "e", "r">>, input |-> v],
             [field |-> <<"m", "a", "n", "i", "f", "e", "s", "t", "V", "e",
                          "r", "s", "i", "o", "n", ".", "i", "n", "t">>, type |-> <<"i", "n", "t", "_", "t", "y", "p", "e">>,
              msg |-> <<"I", "n", "p", "u", "t", " ", "s", "h", "o", "u",
                        "l", "d", " ", "b", "e", " ", "a", " ", "v", "a", "l", "i", "d", " ", "i", "n", "t", "e", "g", "e", "r">>, input |-> v]>>
    ELSE IF v.v < 1
      THEN <<[field |-> <<"m", "a", "n", "i", "f", "e", "s", "t", "V", "e",
                          "r", "s", "i", "o", "n", ".", "f", "l", "o", "a", "t">>,
              type |-> <<"g", "r", "e", "a", "t", "e", "r", "_", "t", "h",
                         "a", "n", "_", "e", "q", "u", "a", "l">>,
              msg |-> <<"I", "n", "p", "u", "t", " ", "s", "h", "o", "u",
                        "l", "d", " ", "b", "e", " ", "g", "r", "e", "a", "t", "e", "r", " ", "t", "h", "a", "n", " ", "o", "r", " ", "e", "q", "u", "a", "l", " ", "t", "o", " ", "1">>,
              input |-> v],
             [field |-> <<"m", "a", "n", "i", "f", "e", "s", "t", "V", "e",
                          "r", "s", "i", "o", "n", ".", "i", "n", "t">>,
              type |-> <<"g", "r", "e", "a", "t", "e", "r", "_", "t", "h",
                         "a", "n", "_", "e", "q", "u", "a", "l">>,
              msg |-> <<"I", "n", "p", "u", "t", " ", "s", "h", "o", "u",
                        "l", "d", " ", "b", "e", " ", "g", "r", "e", "a", "t", "e", "r", " ", "t", "h", "a", "n", " ", "o", "r", " ", "e", "q", "u", "a", "l", " ", "t", "o", " ", "1">>,
              input |-> v]>>
    ELSE IF v.v > 2
      THEN <<[field |-> <<"m", "a", "n", "i", "f", "e", "s", "t", "V", "e",
                          "r", "s", "i", "o", "n", ".", "f", "l", "o", "a", "t">>,
              type |-> <<"l", "e", "s", "s", "_", "t", "h", "a", "n", "_",
                         "e", "q", "u", "a", "l">>,
              msg |-> <<"I", "n", "p", "u", "t", " ", "s", "h", "o", "u",
                        "l", "d", " ", "b", "e", " ", "l", "e", "s", "s", " ", "t", "h", "a", "n", " ", "o", "r", " ", "e", "q", "u", "a", "l", " ", "t", "o", " ", "2">>,
              input |-> v],
             [field |-> <<"m", "a", "n", "i", "f", "e", "s", "t", "V", "e",
                          "r", "s", "i", "o", "n", ".", "i", "n", "t">>,
              type |-> <<"l", "e", "s", "s", "_", "t", "h", "a", "n", "_",
                         "e", "q", "u", "a", "l">>,
              msg |-> <<"I", "n", "p", "u", "t", " ", "s", "h", "o", "u",
                        "l", "d", " ", "b", "e", " ", "l", "e", "s", "s", " ", "t", "h", "a", "n", " ", "o", "r", " ", "e", "q", "u", "a", "l", " ", "t", "o", " ", "2">>,
              input |-> v]>>
    ELSE IF v.v # 1
      THEN <<FieldError("manifestVersion", <<"v", "a", "l", "u", "e", "_",
                                             "e", "r", "r", "o", "r">>,
               <<"V", "a", "l", "u", "e", " ", "e", "r", "r", "o", "r", ",",
                 " ", "m", "a", "n", "i", "f", "e", "s", "t", "V", "e", "r", "s", "i", "o", "n", " ", "m", "u", "s", "t", " ", "b", "e", " ", "1", ",", " ", "1", ".", "1", ",", " ", "o", "r", " ", "1", ".", "2">>, v)>>
    ELSE <<>>

\* port: int, ge=0, le=65535
PortErrors(v) ==
    IF v.type # "int"
      THEN <<FieldError("port", <<"i", "n", "t", "_", "t", "y", "p", "e">>,
               <<"I", "n", "p", "u", "t", " ", "s", "h", "o", "u", "l", "d",
                 " ", "b", "e", " ", "a", " ", "v", "a", "l", "i", "d", " ", "i", "n", "t", "e", "g", "e", "r">>, v)>>
    ELSE IF v.v < 0
      THEN <<FieldError("port", <<"g", "r", "e", "a", "t", "e", "r", "_",
                                  "t", "h", "a", "n", "_", "e", "q", "u", "a", "l">>,
               <<"I", "n", "p", "u", "t", " ", "s", "h", "o", "u", "l", "d",
                 " ", "b", "e", " ", "g", "r", "e", "a", "t", "e", "r", " ", "t", "h", "a", "n", " ", "o", "r", " ", "e", "q", "u", "a", "l", " ", "t", "o", " ", "0">>, v)>>
    ELSE IF v.v > 65535
      THEN <<FieldError("port", <<"l", "e", "s", "s", "_", "t", "h", "a",
                                  "n", "_", "e", "q", "u", "a", "l">>,
               <<"I", "n", "p", "u", "t", " ", "s", "h", "o", "u", "l", "d",
                 " ", "b", "e", " ", "l", "e", "s", "s", " ", "t", "h", "a", "n", " ", "o", "r", " ", "e", "q", "u", "a", "l", " ", "t", "o", " ", "6", "5", "5", "3", "5">>, v)>>
    ELSE <<>>

\* convert_to_string, the pre-validator of developer and submitter
ConvertToString(v) == IF v.type = "int" THEN StrV(IntToChars(v.v)) ELSE v

\* submission, support, website: HttpUrl.  The model draws well-formed URLs
\* and values that are no strings.
UrlErrors(f, v) ==
    IF v.type # "str"
      THEN <<FieldError(f, <<"u", "r", "l", "_", "t", "y", "p", "e">>,
               <<"U", "R", "L", " ", "i", "n", "p", "u", "t", " ", "s", "h",
                 "o", "u", "l", "d", " ", "b", "e", " ", "a", " ", "s", "t", "r", "i", "n", "g", " ", "o", "r", " ", "U", "R", "L">>, v)>>
      ELSE <<>>

\* whether the id of the data passed its validation, so that the validators
\* of later fields find it in values
IdValidated(data) ==
    /\ "id" \in DOMAIN data.fields
    /\ StrField("app", "id", data.fields["id"], 1, 50) = <<>>

\* validate_dependencies that looks at the first dependency only
SelfDependencyRuleFirstOnly(data, v) ==
    IF IdValidated(data) /\ v.items # <<>> /\ v.items[1] = data.fields["id"]
      THEN <<"D", "e", "p", "e", "n", "d", "e", "n", "c", "i", "e", "s", " ",
             "c", "a", "n", "'", "t", " ", "i", "n", "c", "l", "u", "d", "e", " ", "i", "t", "s", " ", "o", "w", "n", " ", "a", "p", "p", " ", "i", "d">>
      ELSE <<>>

\* validate_dependencies, values being the fields validated before
SelfDependencyRule(data, v) ==
    IF IdValidated(data)
       /\ \E i \in 1..Len(v.items) : v.items[i] = data.fields["id"]
      THEN <<"D", "e", "p", "e", "n", "d", "e", "n", "c", "i", "e", "s", " ",
             "c", "a", "n", "'", "t", " ", "i", "n", "c", "l", "u", "d", "e", " ", "i", "t", "s", " ", "o", "w", "n", " ", "a", "p", "p", " ", "i", "d">>
      ELSE <<>>

\* dependencies: list[str], default []
DependenciesErrors(data) ==
    IF "dependencies" \notin DOMAIN data.fields THEN <<>>
    ELSE LET v == data.fields["dependencies"]
         IN  IF v.type # "list"
               THEN <<FieldError("dependencies", <<"l", "i", "s", "t", "_",
                                                   "t", "y", "p", "e">>,
                        <<"I", "n", "p", "u", "t", " ", "s", "h", "o", "u",
                          "l", "d", " ", "b", "e", " ", "a", " ", "v", "a", "l", "i", "d", " ", "l", "i", "s", "t">>, v)>>
             ELSE IF \E i \in 1..Len(v.items) : v.items[i].type # "str"
               THEN Concat([i \in 1..Len(v.items) |->
                      IF v.items[i].type # "str"
                        THEN <<[field |-> <<"d", "e", "p", "e", "n", "d",
                                            "e", "n", "c", "i", "e", "s", ".">>
                                            \o IntToChars(i - 1),
                                type |-> <<"s", "t", "r", "i", "n", "g", "_",
                                           "t", "y", "p", "e">>,
                                msg |-> <<"I", "n", "p", "u", "t", " ", "s",
                                          "h", "o", "u", "l", "d", " ", "b", "e", " ", "a", " ", "v", "a", "l", "i", "d", " ", "s", "t", "r", "i", "n", "g">>,
                                input |-> v.items[i]]>>
                        ELSE <<>>])
             ELSE IF SelfDependencyRule(data, v) # <<>>
               THEN <<FieldError("dependencies", <<"v", "a", "l", "u", "e",
                                                   "_", "e", "r", "r", "o", "r">>,
                        <<"V", "a", "l", "u", "e", " ", "e", "r", "r", "o",
                          "r", ",", " ">> \o SelfDependencyRule(data, v), v)>>
             ELSE <<>>

\* UmbrelAppManifest(**data): the errors, in the order of the declarations;
\* <<>> when the manifest is constructed
AppManifestErrors(data) ==
    Required(data, "manifestVersion",
             ManifestVersionErrors(Given(data, "manifestVersion")))
      \o Required(data, "id",
           StrField("app", "id", Given(data, "id"), 1, 50))
      \o Required(data, "name",
           StrField("app", "name", Given(data, "name"), 1, 50))
      \o Required(data, "tagline",
           StrField("app", "tagline", Given(data, "tagline"), 1, 100))
      \o Required(data, "category",
           StrField("app", "category", Given(data, "category"), 0, 0))
      \o Required(data, "version",
           StrField("app", "version", Given(data, "version"), 1, 0))
      \o Required(data, "port", PortErrors(Given(data, "port")))
      \o Required(data, "description",
           StrField("app", "description", Given(data, "description"), 1, 5000))
      \o Required(data, "developer",
           StrField("app", "developer",
                    ConvertToString(Given(data, "developer")), 1, 50))
      \o Required(data, "submitter",
           StrField("app", "submitter",
                    ConvertToString(Given(data, "submitter")), 1, 50))
      \o Required(data, "submission",
           UrlErrors("submission", Given(data, "submission")))
      \o Required(data, "support", UrlErrors("support", Given(data, "support")))
      \o Required(data, "website", UrlErrors("website", Given(data, "website")))
      \o Required(data, "path",
           StrField("app", "path", Given(data, "path"), 0, 0))
      \o DependenciesErrors(data)

\* UmbrelAppStoreManifest(**data): the errors
StoreManifestErrors(data) ==
    Required(data, "id", StrField("store", "id", Given(data, "id"), 1, 50))
      \o Required(data, "name",
           StrField("store", "name", Given(data, "name"), 1, 50))

\* the lines of one error in str(e)
ErrorLines(e) ==
    <<e.field,
      <<" ", " ">> \o e.msg \o <<" ", "[", "t", "y", "p", "e",
                                 "=">> \o e.type \o <<",", " ", "i", "n",
                                                      "p", "u", "t", "_", "v", "a", "l", "u", "e", "=">>
        \o Shown(e.input) \o <<",", " ", "i", "n", "p", "u", "t", "_", "t",
                               "y", "p", "e", "=">> \o TypeName(e.input)
        \o <<"]">>,
      <<" ", " ", " ", " ", "F", "o", "r", " ", "f", "u", "r", "t", "h", "e",
        "r", " ", "i", "n", "f", "o", "r", "m", "a", "t", "i", "o", "n", " ", "v", "i", "s", "i", "t", " ", "h", "t", "t", "p", "s", ":", "/", "/", "e", "r", "r", "o", "r", "s", ".", "p", "y", "d", "a", "n", "t", "i", "c", ".", "d", "e", "v", "/", "2", ".", "1", "1", "/", "v", "/">>
        \o e.type>>

\* str(e) of the ValidationError of a model
ErrorMessage(errors, model) ==
    Join(<<IntToChars(Len(errors)) \o <<" ", "v", "a", "l", "i", "d", "a",
                                        "t", "i", "o", "n", " ", "e", "r", "r", "o", "r">>
             \o (IF Len(errors) = 1 THEN <<>> ELSE <<"s">>)
             \o <<" ", "f", "o", "r", " ">> \o model>>
           \o Concat([i \in 1..Len(errors) |-> ErrorLines(errors[i])]),
         "\n")

(* core/linter.py: the finding _validate_app_manifest builds from str(e) *)

Keywords == {<<"i", "n", "p", "u", "t", " ", "s", "h", "o", "u", "l", "d">>, <<"f", "i", "e", "l", "d", " ", "r", "e", "q", "u", "i", "r", "e", "d">>, <<"v", "a", "l", "u", "e", " ", "e", "r", "r", "o", "r">>}

\* any(keyword in line.lower() for keyword in [...])
HasKeyword(line) == \E k \in Keywords : Contains(Lower(line), k)

RECURSIVE ScanLines(_, _, _)
\* the loop over the lines of the message: the first line that is no
\* header, no detail and no link is the field name; the first line with a
\* keyword is the error detail and ends the loop
ScanLines(lines, i, field_name) ==
    IF i > Len(lines)
      THEN [field_name |-> field_name, error_detail |-> <<>>]
    ELSE LET line == Strip(lines[i], Whitespace)
         IN  IF Contains(Lower(line), <<"v", "a", "l", "i", "d", "a", "t",
                                        "i", "o", "n", " ", "e", "r", "r", "o", "r">>) \/ line = <<>>
               THEN ScanLines(lines, i + 1, field_name)
             ELSE IF /\ ~StartsWith(line, <<"F", "o", "r", " ", "f", "u",
                                            "r", "t", "h", "e", "r", " ", "i", "n", "f", "o", "r", "m", "a", "t", "i", "o", "n">>)
                     /\ ~HasKeyword(line)
               THEN ScanLines(lines, i + 1,
                              IF field_name = <<>> THEN line ELSE field_name)
             ELSE IF HasKeyword(line)
               THEN [field_name |-> field_name, error_detail |-> line]
             ELSE ScanLines(lines, i + 1, field_name)

\* the except branch of _validate_app_manifest on error_message = str(e)
SchemaErrorFinding(error_message, app_id) ==
    LET generic == LintingError("schema_validation_error", "error",
                     <<"u", "m", "b", "r", "e", "l", "-", "a", "p", "p", ".",
                       "y", "m", "l", " ", "v", "a", "l", "i", "d", "a", "t", "i", "o", "n", " ", "f", "a", "i", "l", "e", "d">>, error_message,
                     ManifestFile(app_id), <<>>)
        scan    == ScanLines(Split(error_message, "\n"), 1, <<>>)
        field_name   == scan.field_name
        error_detail == scan.error_detail
    IN  IF ~Contains(Lower(error_message), <<"v", "a", "l", "i", "d", "a",
                                             "t", "i", "o", "n", " ", "e", "r", "r", "o", "r">>)
          THEN generic
        ELSE IF field_name = <<>> \/ error_detail = <<>> THEN generic
        ELSE IF /\ Contains(Lower(error_message), <<"t", "a", "g", "l", "i",
                                                    "n", "e">>)
                /\ Contains(Lower(error_message), <<"p", "e", "r", "i", "o",
                                                    "d">>)
          THEN LintingError("schema_validation_error", "error",
                 <<"I", "n", "v", "a", "l", "i", "d", " ", "t", "a", "g",
                   "l", "i", "n", "e">>,
                 <<"T", "a", "g", "l", "i", "n", "e", "s", " ", "s", "h",
                   "o", "u", "l", "d", " ", "n", "o", "t", " ", "e", "n", "d", " ", "w", "i", "t", "h", " ", "a", " ", "p", "e", "r", "i", "o", "d">>,
                 ManifestFile(app_id), field_name)
        ELSE IF Contains(Lower(error_detail),
                         <<"i", "n", "p", "u", "t", " ", "s", "h", "o", "u",
                           "l", "d", " ", "b", "e", " ", "a", " ", "v", "a", "l", "i", "d", " ", "s", "t", "r", "i", "n", "g">>)
          THEN LintingError("schema_validation_error", "error",
                 <<"I", "n", "v", "a", "l", "i", "d", " ", "f", "i", "e",
                   "l", "d", " ", "\"">> \o field_name \o <<"\"">>,
                 <<"T", "h", "e", " ", "f", "i", "e", "l", "d", " ",
                   "\"">> \o field_name
                   \o <<"\"", " ", "m", "u", "s", "t", " ", "b", "e", " ",
                        "a", " ", "s", "t", "r", "i", "n", "g", ",", " ", "b", "u", "t", " ", "r", "e", "c", "e", "i", "v", "e", "d", " ", "a", "n", " ", "i", "n", "v", "a", "l", "i", "d", " ", "v", "a", "l", "u", "e">>,
                 ManifestFile(app_id), field_name)
        ELSE IF Contains(Lower(error_detail), <<"f", "i", "e", "l", "d", " ",
                                                "r", "e", "q", "u", "i", "r", "e", "d">>)
          THEN LintingError("schema_validation_error", "error",
                 <<"M", "i", "s", "s", "i", "n", "g", " ", "r", "e", "q",
                   "u", "i", "r", "e", "d", " ", "f", "i", "e", "l", "d", " ", "\"">> \o field_name \o <<"\"">>,
                 <<"T", "h", "e", " ", "r", "e", "q", "u", "i", "r", "e",
                   "d", " ", "f", "i", "e", "l", "d", " ", "\"">> \o field_name
                   \o <<"\"", " ", "i", "s", " ", "m", "i", "s", "s", "i",
                        "n", "g">>,
                 ManifestFile(app_id), field_name)
        ELSE LintingError("schema_validation_error", "error",
               <<"I", "n", "v", "a", "l", "i", "d", " ", "f", "i", "e", "l",
                 "d", " ", "\"">> \o field_name \o <<"\"">>,
               error_detail, ManifestFile(app_id), field_name)

(* The manifests under test *)

TestApp   == <<"t", "e", "s", "t", "-", "a", "p", "p">>
OtherApp  == <<"o", "t", "h", "e", "r", "-", "a", "p", "p">>
LongTagline == [i \in 1..101 |-> IF i = 101 THEN "." ELSE "a"]
\* 105 characters that begin with the word Period and hold no period
LongPeriodTagline ==
    <<"P", "e", "r", "i", "o", "d", " ", "t", "r", "a", "c", "k", "e", "r",
      " ">> \o [i \in 1..90 |-> "a"]

AppIdValues == {StrV(TestApp), StrV(<<"u", "m", "b", "r", "e", "l", "-", "a",
                                      "p", "p", "-", "s", "t", "o", "r", "e", "-", "x">>)}

TaglineValues ==
    {StrV(<<"A", " ", "g", "r", "e", "a", "t", " ", "a", "p", "p", ".">>), StrV(<<"A", " ", "g", "r", "e", "a", "t", " ", "a", "p", "p">>),
     StrV(<<"v", "1", ".", "0", " ", "i", "s", " ", "o", "u", "t", ".">>), StrV(LongTagline), StrV(LongPeriodTagline),
     StrV(<<>>),
     ListV(<<StrV(<<"p", "e", "r", "i", "o", "d", " ", "t", "r", "a", "c",
                    "k", "e", "r">>)>>)}

DependencyLists(id) ==
    {<<>>, <<StrV(OtherApp)>>, <<id>>, <<StrV(OtherApp), id>>}

\* the keyword arguments of UmbrelAppManifest: every required field but,
\* at times, the name; dependencies at times
AppData(id, withName, tagline, category, deps) ==
    LET keys == SelectSeq(RequiredFields \o deps.keys,
                          LAMBDA f : f # "name" \/ withName)
        all  == [manifestVersion |-> IntV(1), id |-> id,
                 name |-> StrV(<<"T", "e", "s", "t", " ", "A", "p", "p">>), tagline |-> tagline,
                 category |-> category, version |-> StrV(<<"1", ".", "0",
                                                           ".", "0">>),
                 port |-> IntV(3000), description |-> StrV(<<"A", "n", " ",
                                                             "a", "p", "p">>),
                 developer |-> StrV(<<"d", "e", "v">>), submitter |-> IntV(7),
                 submission |-> StrV(<<"https://github.com/u/r/pull/1">>),
                 support |-> StrV(<<"https://example.com/s">>),
                 website |-> StrV(<<"https://example.com">>),
                 path |-> StrV(<<>>)] @@ deps.fields
    IN  MapV(keys, [f \in {keys[i] : i \in 1..Len(keys)} |-> all[f]])

AppManifests ==
    {AppData(id, withName, tagline, category, deps) :
       id \in AppIdValues, withName \in BOOLEAN, tagline \in TaglineValues,
       category \in {StrV(<<"files">>), StrV(<<"g", "a", "m", "e", "s">>)},
       deps \in {EmptyMap} \cup
                {MapV(<<"dependencies">>, [dependencies |-> ListV(d)]) :
                   d \in DependencyLists(StrV(TestApp))
                           \cup DependencyLists(StrV(<<"u", "m", "b", "r",
                                                       "e", "l", "-", "a", "p", "p", "-", "s", "t", "o", "r", "e", "-", "x">>))}}

StoreIdValues ==
    {StrV(<<"m", "y", "-", "s", "t", "o", "r", "e">>), StrV(<<"M", "y", "_",
                                                              "S", "t", "o", "r", "e">>), StrV(<<"m", "y", "-", "s", "t", "o", "r", "e", "\n">>),
     StrV(<<"m", "y", "-", "a", "w", "e", "s", "o", "m", "e", "-", "a", "p",
            "p", "-", "s", "t", "o", "r", "e">>), StrV(<<"u", "m", "b", "r",
                                                         "e", "l", "-", "a", "p", "p", "-", "s", "t", "o", "r", "e">>),
     StrV(<<"u", "m", "b", "r", "e", "l", "-", "a", "p", "p", "-", "s", "t",
            "o", "r", "e", "-", "m", "i", "n", "e">>), StrV(<<"U", "m", "b",
                                                              "r", "e", "l", "-", "A", "p", "p", "-", "S", "t", "o", "r", "e", "-", "m", "i", "n", "e">>),
     StrV(<<"U", "M", "B", "R", "E", "L", "-", "A", "P", "P", "-", "S", "T",
            "O", "R", "E">>), StrV(<<"a">>), StrV(<<"-", "a">>),
     StrV(<<"a", "-">>), StrV(<<"a", "-", "-", "b">>), StrV(<<"m", "y", " ",
                                                              "s", "t", "o", "r", "e">>),
     StrV(<<"s", "t", "o", "r", "e", "1">>), StrV(<<>>), StrV([i \in 1..50 |-> "a"]),
     StrV([i \in 1..51 |-> "a"]), IntV(5)}

StoreManifests ==
    {MapV(<<"id", "name">>, [id |-> id, name |-> StrV(<<"M", "y", " ", "S",
                                                        "t", "o", "r", "e">>)]) :
       id \in StoreIdValues}
      \cup {MapV(<<"id">>, [id |-> id]) : id \in StoreIdValues}
      \cup {MapV(<<"name">>, [name |-> StrV(<<"M", "y", " ", "S", "t", "o",
                                              "r", "e">>)])}

(* The schema scenario *)

NoValidation == [errors |-> <<>>, message |-> <<>>, finding |-> <<>>]

SchemaInit ==
    /\ manifestIn \in [model : {"app"}, data : AppManifests]
                        \cup [model : {"store"}, data : StoreManifests]
    /\ validation = NoValidation
    /\ schemaPc = "data"

\* manifest = UmbrelAppManifest(**data), and error_message = str(e) when it
\* raises
ConstructAppManifest ==
    /\ schemaPc = "data"
    /\ manifestIn.model = "app"
    /\ LET errors == AppManifestErrors(manifestIn.data)
       IN  validation' =
             [errors |-> errors,
              message |-> IF errors = <<>> THEN <<>>
                          ELSE ErrorMessage(errors, <<"U", "m", "b", "r",
                                                      "e", "l", "A", "p", "p", "M", "a", "n", "i", "f", "e", "s", "t">>),
              finding |-> <<>>]
    /\ schemaPc' = "validated"
    /\ UNCHANGED manifestIn
    /\ UNCHANGED notSchemaVars

\* the except branch of _validate_app_manifest
ReportSchemaError ==
    /\ schemaPc = "validated"
    /\ manifestIn.model = "app"
    /\ validation.errors # <<>>
    /\ validation' = [validation EXCEPT
                        !.finding = <<SchemaErrorFinding(validation.message,
                                                         "a")>>]
    /\ schemaPc' = "reported"
    /\ UNCHANGED manifestIn
    /\ UNCHANGED notSchemaVars

\* UmbrelAppStoreManifest(**data)
ConstructStoreManifest ==
    /\ schemaPc = "data"
    /\ manifestIn.model = "store"
    /\ LET errors == StoreManifestErrors(manifestIn.data)
       IN  validation' =
             [errors |-> errors,
              message |-> IF errors = <<>> THEN <<>>
                          ELSE ErrorMessage(errors,
                                            <<"U", "m", "b", "r", "e", "l",
                                              "A", "p", "p", "S", "t", "o", "r", "e", "M", "a", "n", "i", "f", "e", "s", "t">>),
              finding |-> <<>>]
    /\ schemaPc' = "validated"
    /\ UNCHANGED manifestIn
    /\ UNCHANGED notSchemaVars

SchemaNext ==
    \/ ConstructAppManifest
    \/ ReportSchemaError
    \/ ConstructStoreManifest

---------------------------------------------------------------------------
(* The rule checks of the compose validator on parsed documents *)

ServiceBodies ==
    {Null,                                              \* "web:" and nothing
     Service(<<"restart">>, [restart |-> StrV(OnFailure)]),
     Service(<<"restart">>, [restart |-> StrV(Always)]),
     Service(<<"environment">>,
       [environment |-> MapV(<<"DEBUG">>, [DEBUG |-> BoolV(TRUE)])]),
     Service(<<"restart", "environment", "labels">>,
       [restart |-> StrV(OnFailure),
        environment |-> MapV(<<"DEBUG", "MODE", "N">>,
          [DEBUG |-> BoolV(TRUE), MODE |-> StrV(<<"true">>), N |-> IntV(1)]),
        labels |-> MapV(<<"keep", "DEBUG">>,
          [keep |-> BoolV(FALSE), DEBUG |-> BoolV(TRUE)])]),
     Service(<<"restart", "environment", "extra_hosts">>,
       [restart |-> BoolV(TRUE),
        environment |-> ListV(<<StrV(<<"DEBUG", "=", "true">>)>>),
        extra_hosts |-> MapV(<<"host">>, [host |-> BoolV(TRUE)])]),
     Service(<<"restart", "environment">>,
       [restart |-> StrV(OnFailure),
        environment |-> MapV(<<"DEBUG">>, [DEBUG |-> StrV(<<"true">>)])])}

\* documents of one service and of two
RuleDocuments ==
    {Compose(<<n>>, [k \in {n} |-> b]) :
       n \in {"web", "db", "app_proxy"}, b \in ServiceBodies}
      \cup {Compose(ns, [k \in {ns[1], ns[2]} |-> IF k = ns[1] THEN b ELSE c]) :
              ns \in {<<"web", "db">>, <<"app_proxy", "web">>},
              b \in ServiceBodies, c \in ServiceBodies}

\* service bodies for the security check
SecurityBodies ==
    {Service(<<>>, <<>>),
     Service(<<"network_mode">>, [network_mode |-> StrV(HostMode)]),
     Service(<<"user">>, [user |-> StrV(RootUser)]),
     Service(<<"user">>, [user |-> StrV(<<>>)]),
     Service(<<"user", "network_mode">>,
       [user |-> StrV(<<"1000:1000">>), network_mode |-> StrV(HostMode)]),
     Service(<<"environment">>,
       [environment |-> MapV(<<"PUID">>, [PUID |-> IntV(1000)])]),
     Service(<<"environment">>,
       [environment |-> MapV(<<"UID">>, [UID |-> StrV(<<"1", "0", "0", "1">>)])]),
     Service(<<"environment">>,
       [environment |-> ListV(<<StrV(<<"TZ", "=", "UTC">>),
                                StrV(<<"PUID", "=", "1", "0", "0", "0">>)>>)]),
     Service(<<"environment">>,
       [environment |-> ListV(<<StrV(<<"TZ", "=", "UTC">>), IntV(5)>>)]),
     Service(<<"volumes", "user">>,
       [volumes |-> ListV(<<StrV(DockerSock \o <<":">> \o DockerSock)>>),
        user |-> StrV(<<"1000:1000">>)]),
     Service(<<"volumes", "network_mode">>,
       [volumes |-> ListV(<<StrV(<<".", "/", "d", "a", "t", "a", ":", "/", "d", "a", "t", "a">>),
                            MapV(<<"type", "source", "target">>,
                              [type |-> StrV(<<"bind">>),
                               source |-> StrV(DockerSock),
                               target |-> StrV(DockerSock)])>>),
        network_mode |-> StrV(HostMode)]),
     Service(<<"volumes">>, [volumes |-> Null])}

SecurityDocuments ==
    {Compose(<<n>>, [k \in {n} |-> b]) :
       n \in {"web", "app_proxy"}, b \in SecurityBodies}
      \cup {Compose(<<"app_proxy", "web">>,
                    [k \in {"app_proxy", "web"} |->
                       IF k = "app_proxy" THEN b ELSE c]) :
              b \in {Service(<<"network_mode">>, [network_mode |-> StrV(HostMode)]),
                     Null},
              c \in SecurityBodies}

\* the environment of app_proxy with an APP_HOST value, as a mapping
ProxyEnv(app_host) ==
    Service(<<"environment">>,
      [environment |-> MapV(<<"APP_HOST", "APP_PORT">>,
         [APP_HOST |-> StrV(app_host), APP_PORT |-> StrV(<<"8", "0">>)])])

AppHostValues ==
    {<<"a", "_", "web", "_", "1">>, <<"a", "_", "web", "_", "server", "_", "1">>,
     <<"a", "_", "db", "_", "1">>, <<"b", "_", "web", "_", "1">>,
     <<"a", "_", "web", "_", "2">>, <<"web">>, <<"a", "_", "web">>,
     <<"myhost">>, <<"$", "APP_WEB_IP">>}

ProxyBodies ==
    {ProxyEnv(h) : h \in AppHostValues}
      \cup
    {Service(<<>>, <<>>),
     Service(<<"restart">>, [restart |-> StrV(OnFailure)]),
     Service(<<"environment">>,
       [environment |-> MapV(<<"APP_PORT">>, [APP_PORT |-> StrV(<<"8", "0">>)])]),
     Service(<<"environment">>,
       [environment |-> ListV(<<StrV(<<"APP_HOST", "=", "a", "_", "web", "_", "1">>),
                                StrV(<<"APP_PORT", "=", "8", "0">>)>>)]),
     Service(<<"environment">>,
       [environment |-> ListV(<<StrV(<<"APP_HOST", "=", "web">>),
                                StrV(<<"APP_HOST", "=", "a", "_", "db", "_", "1">>),
                                StrV(<<"APP_PORT", "=", "8", "0">>)>>)]),
     Service(<<"environment">>,
       [environment |-> ListV(<<StrV(<<"APP_PORT", "=", "8", "0">>)>>)]),
     Service(<<"environment">>,
       [environment |-> ListV(<<StrV(<<"APP_PORT", "=", "8", "0">>), IntV(5)>>)])}

\* documents of app_proxy and one more service
ProxyDocuments ==
    {Compose(<<"app_proxy", n>>,
             [k \in {"app_proxy", n} |-> IF k = "app_proxy" THEN b ELSE c]) :
       n \in {"web", "web_server"}, b \in ProxyBodies,
       c \in {GoodWeb,
              Service(<<"restart", "hostname">>,
                [restart |-> StrV(OnFailure), hostname |-> StrV(<<"myhost">>)])}}

\* the volume entries the volume check is run on
VolumeLists ==
    {<<StrV(<<"$", "{", "A", "P", "P", "_", "D", "A", "T", "A", "_", "D", "I", "R", "}", "/", "d", "a", "t", "a", ":", "/", "d", "a", "t", "a">>)>>,
     <<StrV(<<"$", "{", "A", "P", "P", "_", "D", "A", "T", "A", "_", "D", "I", "R", "}", ":", "/", "d", "a", "t", "a">>)>>,
     <<StrV(<<"$", "{", "A", "P", "P", "_", "D", "A", "T", "A", "_", "D", "I", "R", "}", "/", ":", "/", "d", "a", "t", "a">>)>>,
     <<StrV(<<"$", "{", "A", "P", "P", "_", "D", "A", "T", "A", "_", "D", "I", "R", "}", "/", "d", "a", "t", "a", "/", ":", "/", "d", "a", "t", "a">>)>>,
     <<StrV(<<"$", "A", "P", "P", "_", "D", "A", "T", "A", "_", "D", "I", "R", "/", "d", "a", "t", "a", "/", "a", "p", "p", ".", "c", "o", "n", "f", ":", "/", "e", "t", "c", "/", "a", "p", "p", ".", "c", "o", "n", "f", ":", "r", "o">>)>>,
     <<StrV(<<".", "/", "l", "o", "c", "a", "l", ":", "/", "d", "a", "t", "a">>)>>,
     <<StrV(<<"$", "{", "A", "P", "P", "_", "D", "A", "T", "A", "_", "D", "I", "R", "}", "/", "d", "a", "t", "a">>)>>,
     <<MapV(<<"type", "source", "target">>,
         [type |-> StrV(<<"bind">>),
          source |-> StrV(<<"$", "{", "A", "P", "P", "_", "D", "A", "T", "A", "_", "D", "I", "R", "}", "/", "d", "a", "t", "a">>),
          target |-> StrV(<<"/", "d", "a", "t", "a">>)])>>,
     <<MapV(<<"type", "source", "target">>,
         [type |-> StrV(<<"bind">>),
          source |-> StrV(<<"$", "{", "A", "P", "P", "_", "D", "A", "T", "A", "_", "D", "I", "R", "}", "/">>),
          target |-> StrV(<<"/", "d", "a", "t", "a">>)])>>,
     <<MapV(<<"type", "source", "target">>,
         [type |-> StrV(<<"bind">>),
          source |-> StrV(<<"$", "{", "A", "P", "P", "_", "D", "A", "T", "A", "_", "D", "I", "R", "}", "/", "d", "a", "t", "a", "/">>),
          target |-> StrV(<<"/", "d", "a", "t", "a">>)])>>,
     <<StrV(<<"$", "{", "A", "P", "P", "_", "D", "A", "T", "A", "_", "D", "I", "R", "}", "/", "l", "o", "g", "s", ":", "/", "l", "o", "g", "s">>),
       StrV(<<"$", "A", "P", "P", "_", "D", "A", "T", "A", "_", "D", "I", "R", ":", "/", "a", "l", "l">>)>>}

VolumeDocuments ==
    {Compose(<<"web">>,
             [k \in {"web"} |->
                Service(<<"restart", "volumes">>,
                  [restart |-> StrV(OnFailure), volumes |-> ListV(vs)])]) :
       vs \in VolumeLists}

\* what get_directory_files lists under the application directory
RuleListings ==
    {{FileEntry(<<"d", "o", "c", "k", "e", "r", "-", "c", "o", "m", "p", "o", "s", "e", ".", "y", "m", "l">>, "file")},
     {FileEntry(<<"d", "o", "c", "k", "e", "r", "-", "c", "o", "m", "p", "o", "s", "e", ".", "y", "m", "l">>, "file"),
      FileEntry(<<"d", "a", "t", "a">>, "directory"),
      FileEntry(<<"d", "a", "t", "a", "/", "a", "p", "p", ".", "c", "o", "n", "f">>, "file")},
     {FileEntry(<<"a">>, "directory"),
      FileEntry(<<"a", "/", "d", "a", "t", "a">>, "directory")}}

RuleInit ==
    /\ compose \in RuleDocuments \cup SecurityDocuments \cup ProxyDocuments
                   \cup VolumeDocuments
    /\ ruleFiles \in RuleListings
    /\ ruleOut = <<>>
    /\ rulePc = "none"

\* ruleOut = self._validate_boolean_values(compose, "a")
CallValidateBooleanValues ==
    /\ rulePc = "none"
    /\ ruleOut' = ValidateBooleanValues(compose, "a")
    /\ rulePc' = "booleans"
    /\ UNCHANGED <<compose, ruleFiles>>
    /\ UNCHANGED notRuleVars

\* ruleOut = self._validate_restart_policies(compose, "a")
CallValidateRestartPolicies ==
    /\ rulePc = "none"
    /\ ruleOut' = ValidateRestartPolicies(compose, "a")
    /\ rulePc' = "restart"
    /\ UNCHANGED <<compose, ruleFiles>>
    /\ UNCHANGED notRuleVars

\* ruleOut = self._validate_security_settings(compose, "a")
CallValidateSecuritySettings ==
    /\ rulePc = "none"
    /\ ruleOut' = ValidateSecuritySettings(compose, "a")
    /\ rulePc' = "security"
    /\ UNCHANGED <<compose, ruleFiles>>
    /\ UNCHANGED notRuleVars

\* ruleOut = self._validate_app_proxy_configuration(compose, "a")
CallValidateAppProxyConfiguration ==
    /\ rulePc = "none"
    /\ ruleOut' = ValidateAppProxyConfiguration(compose, "a")
    /\ rulePc' = "proxy"
    /\ UNCHANGED <<compose, ruleFiles>>
    /\ UNCHANGED notRuleVars

\* ruleOut = self._validate_volume_mounts(compose, "a", ruleFiles)
CallValidateVolumeMounts ==
    /\ rulePc = "none"
    /\ ruleOut' = ValidateVolumeMounts(compose, "a", ruleFiles)
    /\ rulePc' = "volumes"
    /\ UNCHANGED <<compose, ruleFiles>>
    /\ UNCHANGED notRuleVars

RuleNext ==
    \/ CallValidateBooleanValues
    \/ CallValidateRestartPolicies
    \/ CallValidateSecuritySettings
    \/ CallValidateAppProxyConfiguration
    \/ CallValidateVolumeMounts

---------------------------------------------------------------------------
(* Specifications *)

MockIdle ==
    /\ text = <<>> /\ mocked = <<>> /\ mocked2 = <<>> /\ mpc = "idle"

ImageIdle ==
    /\ imageString = <<>> /\ imageStr = <<>> /\ image = NoImage

CliIdle == strict = FALSE /\ exitCode = -1

FindIdle == mockedVariables = <<>> /\ findPc = "none"

LintIdle ==
    /\ LintInit
    /\ CliIdle
    /\ FindIdle
    /\ ctx = CHOOSE c \in Contexts : c.all_app_manifests = <<>> /\ ~c.is_new_submission

RegIdle ==
    /\ svcs = <<>> /\ check = FALSE /\ rpc = "done" /\ ri = 1
    /\ requests = <<>> /\ regCache = <<>> /\ rerrors = <<>>
    /\ resp = NoResponse /\ token = Null /\ resolved = <<>>

RuleIdle ==
    /\ compose = Null /\ ruleOut = <<>> /\ rulePc = "none"
    /\ ruleFiles = {}

SchemaIdle ==
    /\ manifestIn = [model |-> "none", data |-> Null]
    /\ validation = NoValidation /\ schemaPc = "none"

OthersIdle == RegIdle /\ RuleIdle /\ SchemaIdle

\* the report under add_error calls
InitResult == ResultInit /\ LintIdle /\ MockIdle /\ ImageIdle /\ OthersIdle
NextResult == CallAddError
SpecResult == InitResult /\ [][NextResult]_vars

\* the linter runs
InitLint ==
    LintInit /\ CliInit /\ FindIdle /\ ResultInit /\ MockIdle /\ ImageIdle
      /\ OthersIdle

\* _find_mocks on one variable
InitFind ==
    FindInit /\ LintInit /\ CliIdle /\ ResultInit /\ MockIdle /\ ImageIdle
      /\ OthersIdle
      /\ ctx = CHOOSE c \in Contexts :
                  c.all_app_manifests = <<>> /\ ~c.is_new_submission
SpecFind == InitFind /\ [][FindNext]_vars
SpecLint == InitLint /\ [][LintNext]_vars

\* the variable mocker
InitMock == MockInit /\ ResultInit /\ LintIdle /\ ImageIdle /\ OthersIdle
SpecMock == InitMock /\ [][MockNext]_vars

\* the image references
InitImage == ImageInit /\ ResultInit /\ LintIdle /\ MockIdle /\ OthersIdle
SpecImage == InitImage /\ [][ImageNext]_vars

\* validate_images with the registry client
InitRegistry ==
    RegInit /\ ResultInit /\ LintIdle /\ MockIdle /\ ImageIdle /\ RuleIdle
      /\ SchemaIdle
SpecRegistry == InitRegistry /\ [][RegNext]_vars

\* the rule checks of the compose validator
InitRules ==
    RuleInit /\ ResultInit /\ LintIdle /\ MockIdle /\ ImageIdle /\ RegIdle
      /\ SchemaIdle
SpecRules == InitRules /\ [][RuleNext]_vars

\* the manifests under the schema library
InitSchema ==
    SchemaInit /\ ResultInit /\ LintIdle /\ MockIdle /\ ImageIdle /\ RegIdle
      /\ RuleIdle
SpecSchema == InitSchema /\ [][SchemaNext]_vars

---------------------------------------------------------------------------
(* Properties *)

\* the counter of a report for a severity
CounterOf(r, s) ==
    CASE s = "error"   -> r.total_errors
      [] s = "warning" -> r.total_warnings
      [] s = "info"    -> r.total_info

CountersMatch(r) ==
    \A s \in Severity : CounterOf(r, s) = CountSeverity(r.errors, s)

\* C2: in every report returned by lint_app, lint_app_store and lint_all_apps
\* (the aggregate included) each counter equals the number of findings of
\* its severity in errors
C2_CountersMatchFindings ==
    returned.kind = "result" => CountersMatch(returned.value)

AllStages == <<"manifest", "compose", "structure">>

\* C4: lint_app runs its stages in the order manifest, compose, structure;
\* on an absent directory it produces exactly the finding
\* app_directory_not_found and runs no stage; otherwise, when it ends, all
\* three stages have run whatever the earlier ones found
C4_AllStagesRun ==
    /\ \E n \in 0..3 : stages = SubSeq(AllStages, 1, n)
    /\ (mode \in {"app", "single", "all"} /\ pc \in {"app_return", "raised"}) =>
          IF apps[cur] \notin AppIds
            THEN /\ stages = <<>>
                 /\ Len(appResult.errors) = 1
                 /\ appResult.errors[1].id = "app_directory_not_found"
                 /\ appResult.errors[1].severity = "error"
            ELSE stages = AllStages

NewSubmissionIds ==
    {"invalid_submission_field",
     "filled_out_release_notes_on_first_submission",
     "filled_out_icon_or_gallery_on_first_submission"}

\* C5: on a manifest that fails schema validation _validate_app_manifest
\* returns normally, with no duplicate_ui_port finding and no new-submission
\* finding, also when all_app_manifests is not empty
C5_SchemaInvalidReturns ==
    (manifestRun.called /\ manifestRun.schemaFailed) =>
        /\ ~manifestRun.raised
        /\ \A i \in 1..Len(manifestRun.errors) :
              manifestRun.errors[i].id \notin NewSubmissionIds \cup {"duplicate_ui_port"}

\* C6: no failure in one application aborts a run: no call of the linter
\* ends with an exception raised out of it
C6_NoRunAborts ==
    /\ pc # "raised"
    /\ returned.kind # "raised"

ParserMessages ==
    {c.msg : c \in {SyntaxError,
                    BadYaml("found character that cannot start any token")}}

\* C7: parse_yaml_with_error_handling never returns a tree together with a
\* finding; a failure is one finding invalid_yaml_syntax of severity error
\* carrying the parser's message; validate_docker_compose on a text that
\* does not parse returns exactly that finding and starts no rule check
C7_TreeOrFinding ==
    /\ parsed.called =>
          /\ Len(parsed.error) <= 1
          /\ parsed.error # <<>> =>
                /\ parsed.data = Null
                /\ parsed.error[1].id = "invalid_yaml_syntax"
                /\ parsed.error[1].severity = "error"
                /\ parsed.error[1].message \in ParserMessages
    /\ (composeRun.called /\ ~composeRun.syntaxOk) =>
          /\ ~composeRun.raised
          /\ Len(composeRun.errors) = 1
          /\ composeRun.errors[1].id = "invalid_yaml_syntax"
          /\ composeRun.errors[1].severity = "error"
          /\ composeRun.errors[1].message = SyntaxError.msg
          /\ composeRun.rules = <<>>

\* the compose stage ran on a text that does not parse
C7_SyntaxErrorInCompose ==
    /\ pc = "structure"
    /\ composeRun.called
    /\ ~composeRun.syntaxOk
    /\ parsed.error # <<>>
    /\ composeRun.errors = parsed.error

RECURSIVE Substitute(_, _, _, _)
\* s from position i with every placeholder occurrence replaced by the mock
\* of its own variable name; k counts the occurrences
Substitute(s, i, k, ports) ==
    IF i > Len(s) THEN <<>>
    ELSE IF s[i] # "$" THEN <<s[i]>> \o Substitute(s, i + 1, k, ports)
    ELSE LET n == NameRun(s, i + 1)
             m == NameRun(s, i + 2)
         IN  IF n > 0
               THEN MockOf(SubSeq(s, i + 1, i + n), ports[k])
                      \o Substitute(s, i + n + 1, k + 1, ports)
             ELSE IF /\ i + 1 <= Len(s) /\ s[i + 1] = "{"
                     /\ m > 0
                     /\ i + 2 + m <= Len(s) /\ s[i + 2 + m] = "}"
               THEN MockOf(SubSeq(s, i + 2, i + 1 + m), ports[k])
                      \o Substitute(s, i + m + 3, k + 1, ports)
             ELSE <<s[i]>> \o Substitute(s, i + 1, k, ports)

\* C8: mock_variables replaces every placeholder occurrence of the text, in
\* the form $NAME and in the form ${NAME}, by the mock of its own variable
\* name
C8_EveryPlaceholderReplaced ==
    mpc \in {"mocked", "again"} =>
        \E ports \in PortDraws(text) : mocked = Substitute(text, 1, 1, ports)

\* whether s holds a match of \$(?:NAME+|\{NAME+\})
HasPlaceholder(s) ==
    \E i \in 1..Len(s) :
        /\ s[i] = "$"
        /\ \/ i + 1 <= Len(s) /\ s[i + 1] \in NameChars
           \/ \E j \in (i + 3)..Len(s) :
                 /\ s[i + 1] = "{"
                 /\ s[j] = "}"
                 /\ \A k \in (i + 2)..(j - 1) : s[k] \in NameChars

\* C9: when the mock of a text holds no placeholder, the mock of the mock is
\* the mock, whatever ports the two calls draw
C9_MockIdempotent ==
    (mpc = "again" /\ ~HasPlaceholder(mocked)) => mocked2 = mocked

\* a text with a _PORT variable was mocked twice, nothing left to replace
C9_PortMockedTwice ==
    /\ mpc = "again"
    /\ Contains(text, <<"$", "A", "_", "P", "O", "R", "T">>)
    /\ mocked # text
    /\ ~HasPlaceholder(mocked)
    /\ mocked2 = mocked

\* C10: for a reference <host>/<namespace>/<name>:<tag>@sha256:<64 hex>,
\* from_string recovers host, path, tag and digest as the segments, and str
\* of the parsed image is the reference
C10_RoundTrip ==
    \A host \in Hosts, ns \in Namespaces, name \in Names, tag \in Tags,
       hex \in Hexes :
        imageString = Reference(host, ns, name, tag, hex) =>
            /\ image # NoImage =>
                  image = DockerImage(host, ns \o <<"/">> \o name, tag, Sha256(hex))
            /\ imageStr # <<>> => imageStr = imageString

\* a full reference whose host has a port went through from_string and str
C10_FullReferenceParsed ==
    /\ \E ns \in Namespaces, name \in Names, tag \in Tags, hex \in Hexes :
          imageString = Reference(<<"h", ":", "5">>, ns, name, tag, hex)
    /\ Len(image.digest) = Len(Sha256(<<>>)) + DigestHexLen
    /\ imageStr = imageString

---------------------------------------------------------------------------
(* validate_images and the registry client *)

\* the findings of an id and a severity on the image of service i
ImageFindings(errs, i, id, severity) ==
    {k \in 1..Len(errs) : /\ errs[k].id = id
                          /\ errs[k].severity = severity
                          /\ errs[k].properties_path = ImagePath(i)}

\* C11: when validate_images has returned (architecture check off), every
\* service with a non-empty image value has an Error invalid_docker_image_name
\* exactly when the value is not <name>:<tag>@sha256:<64 hex> from its first
\* character to its last, and a Warning invalid_docker_image_name exactly
\* when it is and its tag is latest
C11_FormatFindingIffNotExact ==
    (rpc = "done" /\ ~check) =>
      \A i \in 1..Len(svcs) :
         Truthy(svcs[i]) =>
           LET exact  == svcs[i].type = "str" /\ ExactReference(svcs[i].v)
               latest == exact /\ FromString(svcs[i].v).tag = Latest
           IN  /\ (ImageFindings(rerrors, i, "invalid_docker_image_name",
                                 "error") # {}) <=> ~exact
               /\ (ImageFindings(rerrors, i, "invalid_docker_image_name",
                                 "warning") # {}) <=> latest

\* C12: validate_image is invoked, and a request goes to a registry, only
\* when check_architectures is on and only for a service whose image value
\* conforms to the image pattern
C12_OnlyConformingResolved ==
    /\ \A k \in 1..Len(resolved) :
          (resolved[k].invoked \/ resolved[k].requests # <<>>) =>
            check /\ svcs[k].type = "str" /\ Conforms(svcs[k].v)
    /\ requests # <<>> => check /\ Conforms(svcs[ri].v)

\* the requests of a kind in a log
RequestsOf(log, kind) == {j \in 1..Len(log) : log[j].kind = kind}

\* the last request of the log, when the step added one
Added(before, after) == after[Len(after)]

\* whether a response is an error for raise_for_status, or no response
Failing(r) == r.kind = "failure" \/ (r.kind = "response" /\ r.status \notin 200..299)

\* C13: a step that sends a token request follows exactly one manifest
\* request, answered 401 with a realm, goes to that realm and carries the
\* challenge's scope or else repository:<path>:pull; a step that sends a
\* manifest request sends the first one without credentials or the second
\* one after the one token request, with the token obtained as the bearer;
\* no image sees more than one token request and two manifest requests, and
\* a second manifest response that fails ends in a raised error with one
\* finding
C13_ChallengeResponse ==
    /\ [][Len(requests') > Len(requests) =>
            LET q      == Added(requests, requests')
                params == ParseWwwAuthenticate(resp.www_authenticate)
            IN  /\ q.kind = "token" =>
                     /\ resp.kind = "response" /\ resp.status = 401
                     /\ Param(params, <<"realm">>) # <<>>
                     /\ q.realm = Param(params, <<"realm">>)
                     /\ Cardinality(RequestsOf(requests, "manifest")) = 1
                     /\ RequestsOf(requests, "token") = {}
                     /\ q.scope = IF <<"scope">> \in DOMAIN params
                                       /\ params[<<"scope">>] # <<>>
                                    THEN <<params[<<"scope">>]>>
                                    ELSE <<<<"repository:">>,
                                           FromString(svcs[ri].v).path,
                                           <<":pull">>>>
                /\ q.kind = "manifest" =>
                     IF RequestsOf(requests, "manifest") = {}
                       THEN q.bearer = Null
                       ELSE /\ Cardinality(RequestsOf(requests, "manifest")) = 1
                            /\ Cardinality(RequestsOf(requests, "token")) = 1
                            /\ Truthy(token)
                            /\ q.bearer = token]_vars
    /\ [](\A log \in {requests} \cup {resolved[k].requests :
                                        k \in 1..Len(resolved)} :
             /\ Cardinality(RequestsOf(log, "token")) <= 1
             /\ Cardinality(RequestsOf(log, "manifest")) <= 2)
    /\ [](\A k \in 1..Len(resolved) :
             (/\ Cardinality(RequestsOf(resolved[k].requests, "manifest")) = 2
              /\ Failing(resolved[k].final)) =>
               /\ resolved[k].outcome.raised
               /\ Len(resolved[k].findings) = 1
               /\ resolved[k].findings[1].severity \in {"error", "info"})

\* a service whose manifest came with the second request, the bearer being
\* the access_token of the realm's answer, after a challenge without scope
C13_RetriedWithToken ==
    \E k \in 1..Len(resolved) :
       LET log == resolved[k].requests
       IN  /\ Len(log) >= 3
           /\ log[Len(log) - 2].kind = "manifest"
           /\ log[Len(log) - 2].bearer = Null
           /\ log[Len(log) - 1].kind = "token"
           /\ log[Len(log) - 1].scope[1] = <<"repository:">>
           /\ log[Len(log)].kind = "manifest"
           /\ log[Len(log)].bearer = StrV(<<"t1">>)
           /\ ~resolved[k].outcome.raised

\* whether get_architectures failed on a 401 answer
FailedOn401(o) ==
    o.final.kind = "response" /\ o.final.status = 401

\* C14: when get_architectures raised for a service, the one finding has the
\* image's canonical string in its title, and it is an Info
\* image_architecture_unverified when the failure is a 401 answer and an
\* Error in every other case
C14_SeverityBy401Only ==
    \A k \in 1..Len(resolved) :
       (resolved[k].registry /\ resolved[k].outcome.raised) =>
         /\ Len(resolved[k].findings) = 1
         /\ resolved[k].findings[1].title[2]
              = ImageToString(FromString(svcs[k].v))
         /\ IF FailedOn401(resolved[k])
              THEN /\ resolved[k].findings[1].severity = "info"
                   /\ resolved[k].findings[1].id
                        = "image_architecture_unverified"
              ELSE resolved[k].findings[1].severity = "error"

\* whether the tuples name linux on both architectures
BothArchitectures(tuples) ==
    /\ \E j \in 1..Len(tuples) :
          tuples[j].os.v = <<"linux">> /\ tuples[j].architecture.v = <<"arm64">>
    /\ \E j \in 1..Len(tuples) :
          tuples[j].os.v = <<"linux">> /\ tuples[j].architecture.v = <<"amd64">>

\* whether the answer is a manifest list: by its content type or by its
\* manifests entry
IsList(r) ==
    \/ \E j \in 1..Len(r.content_type) :
          r.content_type[j] \in {"manifest.list", "image.index"}
    \/ /\ "manifests" \in DOMAIN r.body.fields
       /\ r.body.fields["manifests"].items # <<>>

\* C15: for a service on a confirmed registry whose tuples were resolved,
\* there is no invalid_image_architectures finding exactly when the tuples
\* hold {linux, arm64} and {linux, amd64}, and otherwise there is one Error
\* of that id; an answer that is no list resolves to the one tuple
\* {linux, amd64} and so to the Error; a list resolves to one tuple for each
\* entry, os linux and architecture amd64 standing in for what the entry's
\* platform leaves out
C15_BothArchitecturesOrError ==
    \A k \in 1..Len(resolved) :
       (resolved[k].registry /\ ~resolved[k].outcome.raised) =>
         LET tuples == resolved[k].outcome.architectures
             body   == resolved[k].final.body
             found  == {j \in 1..Len(resolved[k].findings) :
                          resolved[k].findings[j].id
                            = "invalid_image_architectures"}
         IN  /\ (found = {}) <=> BothArchitectures(tuples)
             /\ found # {} =>
                  /\ Len(resolved[k].findings) = 1
                  /\ resolved[k].findings[1].severity = "error"
             /\ ~IsList(resolved[k].final) =>
                  /\ Len(tuples) = 1
                  /\ tuples[1].os.v = <<"linux">>
                  /\ tuples[1].architecture.v = <<"amd64">>
                  /\ found # {}
             /\ IsList(resolved[k].final) =>
                  LET entries == IF "manifests" \in DOMAIN body.fields
                                   THEN body.fields["manifests"].items
                                   ELSE <<>>
                  IN  /\ Len(tuples) = Len(entries)
                      /\ \A j \in 1..Len(entries) :
                            LET p == IF "platform" \in DOMAIN entries[j].fields
                                       THEN entries[j].fields["platform"].fields
                                       ELSE <<>>
                            IN  /\ tuples[j].os.v =
                                     IF "os" \in DOMAIN p THEN p["os"].v
                                     ELSE <<"linux">>
                                /\ tuples[j].architecture.v =
                                     IF "architecture" \in DOMAIN p
                                       THEN p["architecture"].v
                                       ELSE <<"amd64">>

\* a manifest list whose entries leave out the os, and the whole platform,
\* passes by the defaults
C15_PassesByDefaults ==
    \E k \in 1..Len(resolved) :
       /\ resolved[k].registry /\ ~resolved[k].outcome.raised
       /\ resolved[k].final.body
            = ManifestList(<<ArchOnly("arm64"), EmptyMap>>)
       /\ resolved[k].findings = <<>>

---------------------------------------------------------------------------
(* The rule checks of the compose validator *)

\* the services of a document that have a body
Bodies(doc) ==
    LET services == doc.fields["services"]
    IN  {n \in DOMAIN services.fields : services.fields[n].type = "map"}

\* the literal booleans directly under the environment, labels and
\* extra_hosts maps of the services, each as <<service, section, key>>
LiteralBooleans(doc) ==
    {<<n, s, k>> \in Bodies(doc) \X MapOrListFields \X {"DEBUG", "MODE", "N",
                                                       "keep", "host"} :
       LET cfg == doc.fields["services"].fields[n]
       IN  /\ s \in DOMAIN cfg.fields
           /\ cfg.fields[s].type = "map"
           /\ k \in DOMAIN cfg.fields[s].fields
           /\ cfg.fields[s].fields[k].type = "bool"}

\* C16: the boolean check returns exactly one Error
\* invalid_yaml_boolean_value for each literal boolean directly under a
\* service's environment, labels or extra_hosts map, at
\* services.<service>.<section>.<key>, and no other finding
C16_OneErrorForEachBoolean ==
    rulePc = "booleans" =>
      /\ ~ruleOut.raised
      /\ Len(ruleOut.errors) = Cardinality(LiteralBooleans(compose))
      /\ \A b \in LiteralBooleans(compose) :
            Cardinality({j \in 1..Len(ruleOut.errors) :
               /\ ruleOut.errors[j].id = "invalid_yaml_boolean_value"
               /\ ruleOut.errors[j].severity = "error"
               /\ ruleOut.errors[j].properties_path
                    = <<"services", b[1], b[2], b[3]>>}) = 1

\* C17: the restart check returns exactly one Warning invalid_restart_policy
\* for every service other than app_proxy whose restart is absent or is not
\* on-failure, and no other finding
C17_OneWarningForEachRestart ==
    rulePc = "restart" =>
      LET services == compose.fields["services"]
          wrong    == {n \in DOMAIN services.fields \ {"app_proxy"} :
                         ~(/\ services.fields[n].type = "map"
                           /\ "restart" \in DOMAIN services.fields[n].fields
                           /\ services.fields[n].fields["restart"]
                                = StrV(OnFailure))}
      IN  /\ ~ruleOut.raised
          /\ Len(ruleOut.errors) = Cardinality(wrong)
          /\ \A n \in wrong :
                Cardinality({j \in 1..Len(ruleOut.errors) :
                   /\ ruleOut.errors[j].id = "invalid_restart_policy"
                   /\ ruleOut.errors[j].severity = "warning"
                   /\ ruleOut.errors[j].properties_path
                        = <<"services", n, "restart">>}) = 1

---------------------------------------------------------------------------
(* The manifests under the schema library *)

\* whether a finding names the period rule in its title or its message
NamesPeriodRule(f) ==
    \/ Contains(Lower(f.title), <<"p", "e", "r", "i", "o", "d">>)
    \/ Contains(Lower(f.message), <<"p", "e", "r", "i", "o", "d">>)

\* C18: a manifest whose tagline ends with a period and holds exactly one
\* period fails validation, and the finding reported for it names the period
\* rule; for a tagline that does not end with a period the finding reported,
\* if any, is not the tagline finding
C18_PeriodRule ==
    (manifestIn.model = "app" /\ schemaPc \in {"validated", "reported"}) =>
      LET t == manifestIn.data.fields["tagline"]
          period == /\ t.type = "str" /\ EndsWith(t.v, <<".">>)
                    /\ Count(t.v, ".") = 1
      IN  /\ period => validation.errors # <<>>
          /\ (period /\ schemaPc = "reported") =>
                NamesPeriodRule(validation.finding[1])
          /\ (t.type = "str" /\ ~EndsWith(t.v, <<".">>)
                /\ schemaPc = "reported") =>
                validation.finding[1].title # <<"I", "n", "v", "a", "l", "i",
                                                "d", " ", "t", "a", "g", "l", "i", "n", "e">>

\* whether a value is a valid application id: a string of 1 to 50
\* characters that does not start with umbrel-app-store
ValidAppId(v) ==
    /\ v.type = "str" /\ Len(v.v) >= 1 /\ Len(v.v) <= 50
    /\ ~(Len(v.v) >= 16 /\ SubSeq(v.v, 1, 16) = <<"u", "m", "b", "r", "e",
                                                  "l", "-", "a", "p", "p", "-", "s", "t", "o", "r", "e">>)

\* C19: a manifest with a valid id whose dependencies, a list of strings,
\* hold that id is rejected with an error on dependencies whose message
\* names Dependencies, and str(e) names them too; a manifest that is
\* constructed has no dependency equal to its id
C19_NoSelfDependency ==
    (manifestIn.model = "app" /\ schemaPc \in {"validated", "reported"}) =>
      LET data == manifestIn.data
          deps == IF "dependencies" \in DOMAIN data.fields
                    THEN data.fields["dependencies"].items ELSE <<>>
          self == \E i \in 1..Len(deps) : deps[i] = data.fields["id"]
      IN  /\ (ValidAppId(data.fields["id"]) /\ self) =>
                /\ \E k \in 1..Len(validation.errors) :
                      /\ validation.errors[k].field = <<"d", "e", "p", "e",
                                                        "n", "d", "e", "n", "c", "i", "e", "s">>
                      /\ Contains(validation.errors[k].msg, <<"D", "e", "p",
                                                              "e", "n", "d", "e", "n", "c", "i", "e", "s">>)
                /\ Contains(validation.message, <<"D", "e", "p", "e", "n",
                                                  "d", "e", "n", "c", "i", "e", "s">>)
          /\ validation.errors = <<>> => ~self

\* the id stands last in the dependencies, after another application's, and
\* the manifest is rejected for it alone
C19_SelfAfterOther ==
    /\ manifestIn.model = "app" /\ schemaPc = "validated"
    /\ "dependencies" \in DOMAIN manifestIn.data.fields
    /\ manifestIn.data.fields["dependencies"].items
         = <<StrV(OtherApp), StrV(TestApp)>>
    /\ manifestIn.data.fields["id"] = StrV(TestApp)
    /\ Len(validation.errors) = 1
    /\ validation.errors[1].field = <<"d", "e", "p", "e", "n", "d", "e", "n",
                                      "c", "i", "e", "s">>

\* C20: a store manifest id is accepted exactly when it is made of lowercase
\* words joined by single dashes, from its first character to its last, and
\* does not start with umbrel-app-store
C20_StoreIdAcceptedIffFormat ==
    (manifestIn.model = "store" /\ schemaPc = "validated"
       /\ "id" \in DOMAIN manifestIn.data.fields) =>
      LET id == manifestIn.data.fields["id"]
          accepted == \A k \in 1..Len(validation.errors) :
                         validation.errors[k].field # <<"i", "d">>
      IN  accepted <=>
            /\ id.type = "str"
            /\ StoreIdWords(id.v)
            /\ ~(Len(id.v) >= 16 /\ SubSeq(id.v, 1, 16) = <<"u", "m", "b",
                                                            "r", "e", "l", "-", "a", "p", "p", "-", "s", "t", "o", "r", "e">>)

---------------------------------------------------------------------------
(* The duplicate-port check *)

\* the manifests of the context, by index, that declare a port under an id
\* other than the application's
DeclaringPort(c, port, app_id) ==
    {i \in 1..Len(c.all_app_manifests) :
       LET d == ParseYaml(c.all_app_manifests[i], <<"manifest">>).data
       IN  /\ IsMap(d)
           /\ Get(d, "port", Null) = IntV(port)
           /\ Get(d, "id", Null) # StrV(<<app_id>>)}

DuplicatePortOf(es) == {i \in 1..Len(es) : es[i].id = "duplicate_ui_port"}

\* C21: after the manifest stage of an application whose manifest declares
\* a port, if a manifest of another application in the context declares
\* the same port the stage has returned one Error duplicate_ui_port whose
\* title names such an application; if none does, there is no
\* duplicate_ui_port finding
C21_DuplicatePortReported ==
    (/\ pc \in {"compose", "raised"} /\ stages = <<"manifest">>
     /\ parsed.called /\ parsed.error = <<>> /\ IsMap(parsed.data)
     /\ Get(parsed.data, "port", Null).type = "int") =>
       LET port   == parsed.data.fields["port"].v
           others == DeclaringPort(ctx, port, apps[cur])
           dups   == DuplicatePortOf(manifestRun.errors)
       IN  IF others = {}
             THEN dups = {}
             ELSE /\ ~manifestRun.raised
                  /\ Cardinality(dups) = 1
                  /\ \A k \in dups :
                        /\ manifestRun.errors[k].severity = "error"
                        /\ \E i \in others :
                              manifestRun.errors[k].title[4][2] =
                                ParseYaml(ctx.all_app_manifests[i],
                                          <<"manifest">>).data.fields["id"].v

---------------------------------------------------------------------------
(* The lint command *)

---------------------------------------------------------------------------
(* The context of a run *)

\* C29: the LintingContext handed to lint_app, lint_app_store or
\* lint_all_apps is never written: every field keeps the value it had when
\* the context was created
C29_ContextReadOnly ==
    /\ ctx.app_id = ctx0.app_id
    /\ ctx.app_store_type = ctx0.app_store_type
    /\ ctx.is_new_submission = ctx0.is_new_submission
    /\ ctx.pull_request_url = ctx0.pull_request_url
    /\ ctx.all_app_manifests = ctx0.all_app_manifests

---------------------------------------------------------------------------
(* The GitHub existence checks *)

\* the findings of the last manifest stage that report a URL as missing
ReportedMissing(id) ==
    {i \in 1..Len(manifestRun.errors) :
       /\ manifestRun.errors[i].id = id
       /\ manifestRun.errors[i].title[1]
            \in {"Pull request not found", "Repository not found"}}

\* C30: a pull request is reported missing only if the lookup of its URL
\* was answered 404, a repository only if the lookup of its URL was
\* answered 404 (a failed lookup and any other answer report nothing); each
\* URL is asked about at most once in a run, and the answer the validator
\* keeps for a URL never changes
C30_ExistenceChecks ==
    /\ [](\A i \in ReportedMissing("invalid_submission_field") :
            /\ manifestRun.errors[i].severity = "error"
            /\ PrUrl \in DOMAIN ghCache /\ ~ghCache[PrUrl]
            /\ \E k \in 1..Len(ghRequests) :
                  ghRequests[k] = [url |-> PrUrl, answer |-> "404"])
    /\ [](\A i \in ReportedMissing("invalid_repo_url") :
            /\ manifestRun.errors[i].severity = "warning"
            /\ RepoUrl \in DOMAIN ghCache /\ ~ghCache[RepoUrl]
            /\ \E k \in 1..Len(ghRequests) :
                  ghRequests[k] = [url |-> RepoUrl, answer |-> "404"])
    /\ [](\A i, j \in 1..Len(ghRequests) :
            ghRequests[i].url = ghRequests[j].url => i = j)
    /\ [][\A url \in DOMAIN ghCache :
            url \in DOMAIN ghCache' /\ ghCache'[url] = ghCache[url]]_vars

---------------------------------------------------------------------------
(* The keyword table of the variable mocker *)

PathKeywords ==
    {<<"_", "D", "I", "R">>,
     <<"_", "P", "A", "T", "H">>,
     <<"_", "R", "O", "O", "T">>,
     <<"_", "C", "O", "N", "F", "I", "G">>}
TokenKeywords ==
    {<<"_", "H", "O", "S", "T">>,
     <<"_", "D", "O", "M", "A", "I", "N">>,
     <<"_", "S", "E", "R", "V", "I", "C", "E">>,
     <<"_", "N", "E", "T", "W", "O", "R", "K">>,
     <<"_", "N", "A", "M", "E">>,
     <<"_", "S", "E", "E", "D">>,
     <<"_", "M", "O", "D", "E">>,
     <<"_", "V", "E", "R", "S", "I", "O", "N">>,
     <<"_", "K", "E", "Y">>,
     <<"_", "S", "E", "C", "R", "E", "T">>,
     <<"_", "T", "O", "K", "E", "N">>}
PathMocks ==
    {<<"/", "p", "a", "t", "h", "/", "t", "o", "/", "d", "i", "r">>,
     <<"/", "s", "o", "m", "e", "/", "p", "a", "t", "h">>,
     <<"/", "p", "a", "t", "h", "/", "t", "o", "/", "r", "o", "o", "t">>,
     <<"/", "p", "a", "t", "h", "/", "t", "o", "/", "c", "o", "n", "f", "i", "g">>}
TokenMocks ==
    {<<"h", "o", "s", "t">>,
     <<"d", "o", "m", "a", "i", "n", ".", "c", "o", "m">>,
     <<"s", "e", "r", "v", "i", "c", "e">>,
     <<"n", "e", "t", "w", "o", "r", "k">>,
     <<"n", "a", "m", "e">>,
     <<"s", "e", "e", "d">>,
     <<"p", "r", "o", "d", "u", "c", "t", "i", "o", "n">>,
     <<"1", ".", "0", ".", "0">>,
     <<"k", "e", "y">>,
     <<"s", "e", "c", "r", "e", "t">>,
     <<"t", "o", "k", "e", "n">>}

HasAny(name, keys) == \E k \in keys : Contains(name, k)

RECURSIVE DecimalValue(_)
\* the number a text of digits writes
DecimalValue(s) ==
    IF s = <<>> THEN 0
    ELSE 10 * DecimalValue(SubSeq(s, 1, Len(s) - 1))
           + (CHOOSE d \in 0..9 : IntToChars(d) = <<s[Len(s)]>>)

\* a decimal integer in [1024, 65535]
IsPortMock(s) ==
    /\ IsDigit(s)
    /\ s[1] # "0"
    /\ DecimalValue(s) >= 1024 /\ DecimalValue(s) <= 65535

KeywordOrder ==
    <<<<"_", "I", "P">>,
      <<"_", "P", "O", "R", "T">>,
      <<"_", "P", "A", "S", "S">>,
      <<"_", "U", "S", "E", "R">>,
      <<"_", "D", "I", "R">>,
      <<"_", "P", "A", "T", "H">>,
      <<"_", "S", "E", "R", "V", "I", "C", "E">>,
      <<"_", "S", "E", "E", "D">>,
      <<"_", "C", "O", "N", "F", "I", "G">>,
      <<"_", "M", "O", "D", "E">>,
      <<"_", "N", "E", "T", "W", "O", "R", "K">>,
      <<"_", "D", "O", "M", "A", "I", "N">>,
      <<"_", "N", "A", "M", "E">>,
      <<"_", "V", "E", "R", "S", "I", "O", "N">>,
      <<"_", "R", "O", "O", "T">>,
      <<"_", "K", "E", "Y">>,
      <<"_", "S", "E", "C", "R", "E", "T">>,
      <<"_", "T", "O", "K", "E", "N">>,
      <<"_", "H", "O", "S", "T">>>>
KeywordMocks ==
    <<<<"1", "0", ".", "1", "0", ".", "1", "0", ".", "1", "0">>,
      <<>>,
      <<"p", "a", "s", "s", "w", "o", "r", "d">>,
      <<"u", "s", "e", "r", "n", "a", "m", "e">>,
      <<"/", "p", "a", "t", "h", "/", "t", "o", "/", "d", "i", "r">>,
      <<"/", "s", "o", "m", "e", "/", "p", "a", "t", "h">>,
      <<"s", "e", "r", "v", "i", "c", "e">>,
      <<"s", "e", "e", "d">>,
      <<"/", "p", "a", "t", "h", "/", "t", "o", "/", "c", "o", "n", "f", "i", "g">>,
      <<"p", "r", "o", "d", "u", "c", "t", "i", "o", "n">>,
      <<"n", "e", "t", "w", "o", "r", "k">>,
      <<"d", "o", "m", "a", "i", "n", ".", "c", "o", "m">>,
      <<"n", "a", "m", "e">>,
      <<"1", ".", "0", ".", "0">>,
      <<"/", "p", "a", "t", "h", "/", "t", "o", "/", "r", "o", "o", "t">>,
      <<"k", "e", "y">>,
      <<"s", "e", "c", "r", "e", "t">>,
      <<"t", "o", "k", "e", "n">>,
      <<"h", "o", "s", "t">>>>

---------------------------------------------------------------------------
(* The schema findings of one manifest *)

\* the manifest field an error of the schema library is about: the first
\* part of its location
ViolatedField(e) == Split(e.field, ".")[1]

ViolatedFields(errors) ==
    {ViolatedField(errors[i]) : i \in 1..Len(errors)}

\* whether a finding is a schema finding for the field f: it names the
\* field as its property, or shows the error of the field in its message
SchemaFindingFor(finding, f) ==
    /\ finding.id = "schema_validation_error"
    /\ \/ finding.properties_path = f
       \/ Contains(finding.message, <<"\n">> \o f \o <<"\n">>)

\* C22: for a manifest that violates k distinct field constraints the
\* report of the manifest stage holds a schema_validation_error finding for
\* each of the k violated fields: k findings at least, and every violated
\* field has its finding
C22_FindingForEachViolatedField ==
    (manifestIn.model = "app" /\ schemaPc = "reported") =>
      LET fields == ViolatedFields(validation.errors)
      IN  /\ Len(validation.finding) >= Cardinality(fields)
          /\ \A f \in fields :
                \E i \in 1..Len(validation.finding) :
                  SchemaFindingFor(validation.finding[i], f)

---------------------------------------------------------------------------
(* The security check *)

\* the findings with an id that the check reported on a property of a service
FindingsOn(out, id, name, property) ==
    {i \in 1..Len(out.errors) :
       /\ out.errors[i].id = id
       /\ out.errors[i].properties_path = <<"services", name, property>>}

\* whether a service mounts the socket of the container engine
MountsSocket(cfg) ==
    /\ Get(cfg, "volumes", Null).type = "list"
    /\ \E i \in 1..Len(cfg.fields["volumes"].items) :
          LET volume == cfg.fields["volumes"].items[i]
          IN  \/ volume.type = "str" /\ Contains(volume.v, DockerSock)
              \/ /\ IsMap(volume) /\ Has(volume, "source")
                 /\ volume.fields["source"].type = "str"
                 /\ Contains(volume.fields["source"].v, DockerSock)

\* C25: the exemption of app_proxy covers the user checks only: for every
\* service, app_proxy included, network_mode: host yields one Info
\* container_network_mode_host and a mounted socket yields a Warning
\* docker_socket_mount, while invalid_container_user is reported at most
\* once for a service and never for app_proxy
C25_ProxyExemptFromUserChecksOnly ==
    rulePc = "security" =>
      \A name \in DOMAIN ServicesOf(compose).fields :
        LET cfg == ServicesOf(compose).fields[name]
        IN  IsMap(cfg) =>
              /\ Get(cfg, "network_mode", Null) = StrV(HostMode) =>
                   /\ Cardinality(FindingsOn(ruleOut,
                        "container_network_mode_host", name, "network_mode")) = 1
                   /\ \A i \in FindingsOn(ruleOut, "container_network_mode_host",
                                          name, "network_mode") :
                         ruleOut.errors[i].severity = "info"
              /\ MountsSocket(cfg) =>
                   \E i \in FindingsOn(ruleOut, "docker_socket_mount", name,
                                       "volumes") :
                      ruleOut.errors[i].severity = "warning"
              /\ Cardinality(FindingsOn(ruleOut, "invalid_container_user",
                                        name, "user")) <= 1
              /\ name = "app_proxy" =>
                   FindingsOn(ruleOut, "invalid_container_user", name,
                              "user") = {}

---------------------------------------------------------------------------
(* The proxy wiring *)

\* the findings of the proxy check with a severity and a title
ProxyFindingsOf(out, severity, title) ==
    {i \in 1..Len(out.errors) :
       /\ out.errors[i].id = "invalid_app_proxy_configuration"
       /\ out.errors[i].severity = severity
       /\ out.errors[i].title = <<title>>}

\* the environment of app_proxy, as a mapping
ProxyEnvironment ==
    EnvVars(Get(ServicesOf(compose).fields["app_proxy"], "environment", EmptyMap))

\* whether a value has the shape <app-id>_<service>_1 for an existing
\* service other than app_proxy, of the application "a"
ExpectedShape(app_host) ==
    \E k \in (DOMAIN ServicesOf(compose).fields) \ {"app_proxy"} :
       app_host = <<"a", "_">> \o ServiceText(k) \o <<"_", "1">>

\* whether a value is a hostname or a container name of a service other
\* than app_proxy
KnownHostname(app_host) ==
    \E k \in (DOMAIN ServicesOf(compose).fields) \ {"app_proxy"} :
       \E f \in {"hostname", "container_name"} :
          Get(ServicesOf(compose).fields[k], f, Null) = StrV(app_host)

\* C26: for a document with an app_proxy service the proxy check reports an
\* Error when APP_HOST is absent from the environment of app_proxy, and a
\* Warning exactly when APP_HOST is present, is no template reference and
\* matches neither a known hostname or container name nor the shape
\* <app-id>_<service>_1 of an existing service other than app_proxy: values
\* of fewer than three parts are warned about, correct values of services
\* with an underscore in their name are not
C26_ProxyWiring ==
    (rulePc = "proxy" /\ "app_proxy" \in DOMAIN ServicesOf(compose).fields
       /\ IsMap(ServicesOf(compose).fields["app_proxy"])) =>
      LET absent  == "APP_HOST" \notin DOMAIN ProxyEnvironment.fields
          warning == ProxyFindingsOf(ruleOut, "warning",
                       "Invalid APP_HOST environment variable") # {}
      IN  /\ absent =>
                ProxyFindingsOf(ruleOut, "error",
                  "Missing APP_HOST environment variable") # {}
          /\ ~absent =>
                LET app_host == ProxyEnvironment.fields["APP_HOST"].v
                IN  warning <=> /\ ~StartsWith(app_host, <<"$">>)
                                /\ ~KnownHostname(app_host)
                                /\ ~ExpectedShape(app_host)

---------------------------------------------------------------------------
(* The volume mounts *)

\* the source of a volume entry: the text before the first colon of the
\* string form, the source of the structured form
VolumeSource(volume) ==
    IF volume.type = "str"
      THEN IF Contains(volume.v, <<":">>) THEN Split1(volume.v, ":")[1]
           ELSE volume.v
      ELSE Get(volume, "source", StrV(<<>>)).v

\* the text of a source after the data-directory variable, [none |-> TRUE]
\* for a source that does not start with the variable
AfterDataDir(source) ==
    IF StartsWith(source, <<"$", "{", "A", "P", "P", "_", "D", "A", "T", "A", "_", "D", "I", "R", "}">>)
      THEN [none |-> FALSE, rest |-> Drop(source, 16)]
    ELSE IF StartsWith(source, <<"$", "A", "P", "P", "_", "D", "A", "T", "A", "_", "D", "I", "R">>)
      THEN [none |-> FALSE, rest |-> Drop(source, 14)]
    ELSE [none |-> TRUE, rest |-> <<>>]

\* the subpath a source mounts: what follows the variable and its slash
Subpath(source) ==
    LET rest == AfterDataDir(source).rest
    IN  IF StartsWith(rest, <<"/">>) THEN Tail(rest) ELSE rest

\* whether a subpath matches an entry listed under the application
\* directory "a"; a trailing slash matches the directory of the same name
MatchesEntry(subpath) ==
    LET name == IF EndsWith(subpath, <<"/">>)
                  THEN SubSeq(subpath, 1, Len(subpath) - 1) ELSE subpath
    IN  \E f \in ruleFiles :
           \/ f.path \in {subpath, <<"a", "/">> \o subpath}
           \/ /\ name # subpath /\ f.type = "directory"
              /\ f.path \in {name, <<"a", "/">> \o name}

\* the findings reported with an id, a severity and a title
ReportedWith(id, severity, title) ==
    {i \in 1..Len(ruleOut.errors) :
       /\ ruleOut.errors[i].id = id
       /\ ruleOut.errors[i].severity = severity
       /\ ruleOut.errors[i].title = title}

\* C27: for every volume entry, string or structured, that references the
\* data-directory variable: a mount of the bare data directory, with or
\* without a trailing slash, yields a Warning
\* invalid_app_data_dir_volume_mount and no missing_file_or_directory
\* finding, and a mount of a subpath yields an Info
\* missing_file_or_directory exactly when the subpath matches no entry
\* listed under the application directory
C27_VolumeMounts ==
    rulePc = "volumes" =>
      \A name \in DOMAIN ServicesOf(compose).fields :
        LET cfg     == ServicesOf(compose).fields[name]
            volumes == IF IsMap(cfg) THEN VolumeEntries(cfg) ELSE <<>>
        IN  \A i \in {k \in 1..Len(volumes) :
                        volumes[k].type = "str" \/ IsMap(volumes[k])} :
              LET source  == VolumeSource(volumes[i])
                  subpath == Subpath(source)
                  shown   == IF volumes[i].type = "str" THEN volumes[i].v
                             ELSE source \o <<":">>
                                    \o Get(volumes[i], "target", StrV(<<>>)).v
                  missing == ReportedWith("missing_file_or_directory", "info",
                               <<"Mounted file/directory doesn't exist", "/",
                                 "a", "/">> \o subpath)
              IN  ~AfterDataDir(source).none =>
                    IF subpath = <<>>
                      THEN /\ ReportedWith("invalid_app_data_dir_volume_mount",
                                "warning", <<"Volume">> \o shown) # {}
                           /\ missing = {}
                      ELSE missing # {} <=> ~MatchesEntry(subpath)

---------------------------------------------------------------------------
(* The registry cache *)

\* the version-check requests of the run so far: those of the services
\* done and those of the service validate_images is at
PingsOfRun ==
    LET logs == Concat([i \in 1..Len(resolved) |-> resolved[i].requests])
                  \o requests
    IN  SelectSeq(logs, LAMBDA q : q.kind = "ping")

\* whether an answer to the version check confirms a registry: a 200 or a
\* 401 response, or a response with the distribution-API version header
Confirms(answer) ==
    /\ answer.kind = "response"
    /\ \/ answer.status = 200
       \/ answer.status = 401
       \/ answer.api_version = <<"registry/2.0">>

\* C28: within one client, over any sequence of is_registry calls, a host
\* is classified as a registry exactly when it is well-known, without a
\* request, or the answer to its version check is 200, 401 or carries the
\* distribution-API version header; at most one version check is issued for
\* a host; and once a host is classified every later call returns the same
\* classification
C28_ClassifiedOnce ==
    /\ [](\A h \in DOMAIN regCache :
            regCache[h] <=>
              \/ h \in WellKnownRegistries
              \/ \E i \in 1..Len(PingsOfRun) :
                    PingsOfRun[i].host = h /\ Confirms(PingsOfRun[i].answer))
    /\ [](\A i, j \in 1..Len(PingsOfRun) :
            /\ PingsOfRun[i].host \notin WellKnownRegistries
            /\ PingsOfRun[i].host = PingsOfRun[j].host => i = j)
    /\ [](\A i \in 1..Len(resolved) :
            resolved[i].invoked =>
              LET h == ApiHost(FromString(svcs[i].v))
              IN  h \in DOMAIN regCache /\ resolved[i].registry = regCache[h])
    /\ [][\A h \in DOMAIN regCache :
            h \in DOMAIN regCache' /\ regCache'[h] = regCache[h]]_vars

\* two services on one host that is not well-known were validated with one
\* version check, which the host answered with 401
C28_SecondCallFromCache ==
    /\ rpc = "done" /\ Len(svcs) = 2
    /\ resolved[1].invoked /\ resolved[2].invoked
    /\ ApiHost(FromString(svcs[1].v)) = ApiHost(FromString(svcs[2].v))
    /\ Len(PingsOfRun) = 1
    /\ PingsOfRun[1].answer.kind = "response"
    /\ PingsOfRun[1].answer.status = 401
    /\ regCache[PingsOfRun[1].host]

===========================================================================
